---- MODULE Spec2Model ----
(***************************************************************************)
(* A state-machine model of mini-redis: the shared store (db.rs) with its  *)
(* expiration worker, the pub/sub broadcast channels, the per-connection   *)
(* handler (server.rs, cmd/*.rs) and the listener with its shutdown        *)
(* protocol (server.rs, shutdown.rs).                                      *)
(*                                                                         *)
(* One handler action models one iteration of the handler loop: the frame  *)
(* read, the command parse, the store operation under the mutex and the    *)
(* response write.  The store operations are pure operators on the record  *)
(* `state`, which models the `State` struct guarded by the mutex.          *)
(***************************************************************************)
EXTENDS Integers, Sequences, FiniteSets, TLC

VARIABLES
    state,       \* db.rs State: entries, pub_sub, expirations, is_shutdown
    poisoned,    \* the std::sync::Mutex around State is poisoned
    notified,    \* Shared::background_task (Notify) holds a stored permit
    workerPc,    \* position of purge_expired_tasks
    workerWhen,  \* the instant the worker sleeps until (Option)
    now,         \* the monotonic clock (Instant::now())
    runPc,       \* position of server::run
    accPc,       \* position of Server::run / Server::accept
    backoff,     \* Server::accept's backoff, in seconds
    permits,     \* free permits of limit_connections
    notifyOpen,  \* the notify_shutdown broadcast::Sender is alive
    srvTx,       \* the listener's shutdown_complete_tx is alive
    hpc,         \* per connection: position of the handler task
    hShut,       \* per connection: Shutdown::is_shutdown
    hExit,       \* per connection: how Handler::run ended
    subs,        \* per connection: the StreamMap of Subscribe::apply
    pend,        \* per connection: Subscribe::channels still to subscribe
    lastSet,     \* history: per key, the last SET not followed by a DEL
    sent,        \* history: per channel, every message the ring accepted
    got,         \* history: per connection and channel, what was delivered
    fired,       \* history: the shutdown future of run has resolved
    fails,       \* history: consecutive failures of Server::accept's loop
    fresh,       \* per connection: the receiver Db::subscribe just returned
    req,         \* wire: per connection, the last request frame dispatched
    out,         \* wire: per connection, the replies written to that request
    cl,          \* per connection: the client's Subscriber::subscribed_channels
    trace,       \* the wire is being recorded (req, out, cl)
    sock,        \* per connection: the requests sent, read, and the replies
    wire,        \* codec: the bytes the peer wrote that are still in the socket
    peer,        \* codec: the peer's end of the socket, "open" or "closed"
    buffer,      \* codec: Connection::buffer
    decoded,     \* codec: the frames Connection::read_frame has returned
    readPc,      \* codec: how Connection::read_frame ended, or "reading"
    encoded,     \* history: the frames the peer has written whole
    signals,     \* observer: the values sent on notify_shutdown
    observer     \* observer: per connection, the calls of Shutdown::recv

storeVars  == <<state, poisoned, notified, workerPc, workerWhen, now>>
serverVars == <<runPc, accPc, backoff, permits, notifyOpen, srvTx, fails>>
connVars   == <<hpc, hShut, hExit, subs, pend, fresh>>
codecVars  == <<wire, peer, buffer, decoded, readPc, encoded>>
latchVars  == <<signals, observer>>
auxVars    == <<trace, sock, codecVars, latchVars>>
wireVars   == <<req, out, cl, auxVars>>
histVars   == <<lastSet, sent, got, fired, wireVars>>
vars == <<state, poisoned, notified, workerPc, workerWhen, now,
          runPc, accPc, backoff, permits, notifyOpen, srvTx,
          hpc, hShut, hExit, subs, pend, lastSet, sent, got, fired,
          fails, fresh, req, out, cl, trace, latchVars, sock,
          wire, peer, buffer, decoded, readPc, encoded, signals, observer>>

----------------------------------------------------------------------------
(* Bounds of the model.                                                    *)

\* Connections the listener may accept in one run.
NConn == 3
\* MAX_CONNECTIONS (server.rs:88) is 250; the model scales the permit pool
\* down so that the pool runs dry with NConn connections.
MAX_CONNECTIONS == 2
\* The broadcast ring holds 1024 messages (db.rs:178); scaled down so that a
\* subscriber can fall behind by more than the ring.
RingCapacity == 1
\* Messages the rings accept in one run, over all channels.
MaxPublish == 3
\* The clock runs from 0 to MaxTime; a TTL is at most MaxTtl ticks.
MaxTime == 3
MaxTtl == 2
\* The codec is followed on texts of at most MaxText bytes, arrays of at
\* most MaxArray entries and MaxFrames frames per connection.
MaxText == 2
MaxArray == 2
MaxFrames == 2
\* Server::accept gives up once backoff exceeds this (server.rs:222).
MaxBackoff == 64

\* Channels a Subscriber holds in its list at most.
MaxSubscribed == 4

Conns    == 1..NConn
Keys     == {"k1", "k2"}
Values   == {"v1", "v2"}
Channels == {"a", "b"}
Msgs     == {"m1", "m2"}

\* A socket nothing has been sent on: the request frames the client has
\* sent, how many of them the handler has read, the reply frames written.
NoTraffic == [reqs |-> << >>, read |-> 0, resp |-> << >>]

\* A connection whose client holds no Subscriber yet.
NoSubscriber == [list |-> << >>, ends |-> "ok"]

\* Option<T>: None is the empty sequence, Some(x) the one-element sequence.
None == << >>
Some(x) == <<x>>
IsSome(o) == o # << >>
Unwrap(o) == o[1]

\* HashMap insert / remove on a function with a finite domain.
MapPut(m, k, v) == [x \in (DOMAIN m) \cup {k} |-> IF x = k THEN v ELSE m[x]]
MapDel(m, k) == [x \in (DOMAIN m) \ {k} |-> m[x]]
EmptyMap == [x \in {} |-> 0]

\* Response frames (frame.rs Frame), and the outcome of a command that
\* panics before it writes any frame.
Simple(s)  == <<"Simple", s>>
Bulk(b)    == <<"Bulk", b>>
Integer(n) == <<"Integer", n>>
Null       == <<"Null">>
Panic      == <<"Panic">>
Error(msg) == <<"Error", msg>>

----------------------------------------------------------------------------
(* Requests: cmd/mod.rs, parser.rs.  A request frame is an Array of Bulk   *)
(* strings, modelled as the sequence of the strings.                       *)

\* str::to_lowercase and str::to_uppercase, on the words the clients send.
Lower(s) ==
    CASE s = "GET" -> "get"
      [] s = "SET" -> "set"
      [] s = "DEL" -> "del"
      [] s = "PUBLISH" -> "publish"
      [] s = "SUBSCRIBE" -> "subscribe"
      [] s = "UNSUBSCRIBE" -> "unsubscribe"
      [] s = "PING" -> "ping"
      [] s = "Ping" -> "ping"
      [] s = "FOO" -> "foo"
      [] OTHER -> s

Upper(s) ==
    CASE s = "ex" -> "EX"
      [] s = "px" -> "PX"
      [] OTHER -> s

\* Parser::next_int on a Bulk string: atoi of the decimal digits.
Atoi(s) ==
    CASE s = "1" -> Some(1)
      [] s = "2" -> Some(2)
      [] OTHER -> None

\* Command::try_from(frame) returned Err.
ParseError == [kind |-> "err"]

\* (Mutant: an option other than EX and PX is skipped.)
SetTryFrom_AnyOption(args) ==
    IF Len(args) < 2 THEN [cmd |-> ParseError, rest |-> << >>]
    ELSE IF Len(args) = 2
    THEN [cmd |-> [kind |-> "set", key |-> args[1], value |-> args[2],
                   expire |-> None],
          rest |-> << >>]
    ELSE IF Upper(args[3]) \in {"EX", "PX"}
    THEN IF Len(args) >= 4 /\ IsSome(Atoi(args[4]))
         THEN [cmd |-> [kind |-> "set", key |-> args[1], value |-> args[2],
                        expire |-> Some(<<Upper(args[3]), Unwrap(Atoi(args[4]))>>)],
               rest |-> SubSeq(args, 5, Len(args))]
         ELSE [cmd |-> ParseError, rest |-> << >>]
    ELSE [cmd |-> [kind |-> "set", key |-> args[1], value |-> args[2],
                   expire |-> None],
          rest |-> SubSeq(args, 4, Len(args))]

\* Set::try_from(parser) on the strings after the name: the key, the
\* value, and then nothing, or EX or PX (in any letter case) and an
\* integer; any other string there is an error.  Yields the command and
\* the strings it has not taken.
SetTryFrom(args) ==
    IF Len(args) < 2 THEN [cmd |-> ParseError, rest |-> << >>]
    ELSE IF Len(args) = 2
    THEN [cmd |-> [kind |-> "set", key |-> args[1], value |-> args[2],
                   expire |-> None],
          rest |-> << >>]
    ELSE IF Upper(args[3]) \in {"EX", "PX"}
    THEN IF Len(args) >= 4 /\ IsSome(Atoi(args[4]))
         THEN [cmd |-> [kind |-> "set", key |-> args[1], value |-> args[2],
                        expire |-> Some(<<Upper(args[3]), Unwrap(Atoi(args[4]))>>)],
               rest |-> SubSeq(args, 5, Len(args))]
         ELSE [cmd |-> ParseError, rest |-> << >>]
    ELSE [cmd |-> ParseError, rest |-> << >>]

\* Command::try_from (Handler::run calls it as Command::from_frame,
\* handle_command as Command::try_from): the first string, lower-cased,
\* selects the command;
\* each command's parser takes its arguments and finish() refuses what is
\* left.  An unknown name returns early, before finish().
CommandTryFrom(frame) ==
    IF frame = << >> THEN ParseError
    ELSE LET cmd_name == Lower(frame[1])
             n == Len(frame) - 1
         IN CASE cmd_name = "get" ->
                   IF n = 1 THEN [kind |-> "get", key |-> frame[2]]
                   ELSE ParseError
              [] cmd_name = "set" ->
                   LET r == SetTryFrom(Tail(frame))
                   IN IF r.cmd.kind = "err" \/ r.rest # << >> THEN ParseError
                      ELSE r.cmd
              [] cmd_name = "del" ->
                   IF n >= 1 THEN [kind |-> "del", keys |-> Tail(frame)]
                   ELSE ParseError
              [] cmd_name = "publish" ->
                   IF n = 2
                   THEN [kind |-> "publish", channel |-> frame[2],
                         message |-> frame[3]]
                   ELSE ParseError
              [] cmd_name = "subscribe" ->
                   IF n >= 1 THEN [kind |-> "subscribe", channels |-> Tail(frame)]
                   ELSE ParseError
              [] cmd_name = "unsubscribe" ->
                   [kind |-> "unsubscribe", channels |-> Tail(frame)]
              [] cmd_name = "ping" ->
                   IF n <= 1 THEN [kind |-> "ping", msg |-> Tail(frame)]
                   ELSE ParseError
              [] OTHER -> [kind |-> "unknown", cmd_name |-> cmd_name]

\* Command::get_name.
GetName(cmd) ==
    CASE cmd.kind = "get" -> "get"
      [] cmd.kind = "set" -> "set"
      [] cmd.kind = "del" -> "del"
      [] cmd.kind = "publish" -> "pub"
      [] cmd.kind = "subscribe" -> "subscribe"
      [] cmd.kind = "unsubscribe" -> "unsubscribe"
      [] cmd.kind = "ping" -> "ping"
      [] cmd.kind = "unknown" -> cmd.cmd_name

\* Unknown::apply writes format!("ERR unknown command '{}'", cmd_name).
UnknownReply(cmd_name) == Error(<<"ERR unknown command '", cmd_name, "'">>)

\* (Mutant: PING answers PONG whatever it was given.)
PingReply_AlwaysPong(msg) == Simple("PONG")

\* Ping::apply writes PONG, or the message it was given.
PingReply(msg) == IF msg = None THEN Simple("PONG") ELSE Bulk(Unwrap(msg))

\* The record of a request: the mode of the handler that read it ("normal"
\* in Handler::run, "sub" in Subscribe::apply), the frame, and the channels
\* the connection was subscribed to when the frame was read.
Request(mode, frame, had) == Some([mode |-> mode, frame |-> frame, had |-> had])

----------------------------------------------------------------------------
(* The store: db.rs.                                                       *)

\* State::next_expiration: the earliest instant of the expiration index.
NextExpiration(st) ==
    IF st.expirations = {} THEN None
    ELSE Some(CHOOSE w \in {p[1] : p \in st.expirations} :
                 \A p \in st.expirations : w <= p[1])

\* Db::get, under the lock: the entry's data, whatever its expires_at.
DbGet(st, key) ==
    IF key \in DOMAIN st.entries THEN Some(st.entries[key].data) ELSE None

\* (Mutant: every SET with a TTL notifies the worker.)
DbSet_AlwaysNotifies(st, key, value, expire, t) ==
    LET expires_at == IF IsSome(expire) THEN Some(t + Unwrap(expire)) ELSE None
        prev == IF key \in DOMAIN st.entries THEN Some(st.entries[key]) ELSE None
        removed == IF IsSome(prev) /\ IsSome(Unwrap(prev).expires_at)
                   THEN st.expirations \ {<<Unwrap(Unwrap(prev).expires_at), key>>}
                   ELSE st.expirations
        inserted == IF IsSome(expires_at)
                    THEN removed \cup {<<Unwrap(expires_at), key>>}
                    ELSE removed
    IN [st |-> [st EXCEPT !.entries = MapPut(st.entries, key,
                                 [data |-> value, expires_at |-> expires_at]),
                          !.expirations = inserted],
        notify |-> IsSome(expire)]

\* (Mutant: the pair of the value that is replaced stays in the index.)
DbSet_KeepsOldPair(st, key, value, expire, t) ==
    LET expires_at == IF IsSome(expire) THEN Some(t + Unwrap(expire)) ELSE None
        next == NextExpiration(st)
        notify == IF IsSome(expire)
                  THEN (IF IsSome(next) THEN Unwrap(next) > Unwrap(expires_at)
                        ELSE TRUE)
                  ELSE FALSE
        inserted == IF IsSome(expires_at)
                    THEN st.expirations \cup {<<Unwrap(expires_at), key>>}
                    ELSE st.expirations
    IN [st |-> [st EXCEPT !.entries = MapPut(st.entries, key,
                                 [data |-> value, expires_at |-> expires_at]),
                          !.expirations = inserted],
        notify |-> notify]

\* Db::set, under the lock.  expire is an Option<Duration>; t is
\* Instant::now().  Yields the new State and whether to notify the worker.
DbSet(st, key, value, expire, t) ==
    LET expires_at == IF IsSome(expire) THEN Some(t + Unwrap(expire)) ELSE None
        next == NextExpiration(st)
        notify == IF IsSome(expire)
                  THEN (IF IsSome(next) THEN Unwrap(next) > Unwrap(expires_at)
                        ELSE TRUE)
                  ELSE FALSE
        prev == IF key \in DOMAIN st.entries THEN Some(st.entries[key]) ELSE None
        removed == IF IsSome(prev) /\ IsSome(Unwrap(prev).expires_at)
                   THEN st.expirations \ {<<Unwrap(Unwrap(prev).expires_at), key>>}
                   ELSE st.expirations
        inserted == IF IsSome(expires_at)
                    THEN removed \cup {<<Unwrap(expires_at), key>>}
                    ELSE removed
    IN [st |-> [st EXCEPT !.entries = MapPut(st.entries, key,
                                 [data |-> value, expires_at |-> expires_at]),
                          !.expirations = inserted],
        notify |-> notify]

\* (Mutant: the channel of the same name goes with the key.)
DbDelKey_AndChannel(st, key) ==
    IF key \in DOMAIN st.entries
    THEN [st EXCEPT !.entries = MapDel(st.entries, key),
                    !.expirations = {p \in st.expirations : p[2] # key},
                    !.pub_sub = MapDel(st.pub_sub, key)]
    ELSE st

\* Db::del for one key: the entry and its expiration pair go.
DbDelKey(st, key) ==
    IF key \in DOMAIN st.entries
    THEN [st EXCEPT !.entries = MapDel(st.entries, key),
                    !.expirations = {p \in st.expirations : p[2] # key}]
    ELSE st

\* (Mutant: the pass drops every pair of the index, due or not.)
PurgeLoop_Everything(st, t) ==
    [st |-> [st EXCEPT
               !.entries = [k \in DOMAIN st.entries \ {p[2] : p \in st.expirations}
                               |-> st.entries[k]],
               !.expirations = {}],
     when |-> None]

\* Shared::purge_expired_keys, under the lock, one pass of its loop at
\* instant t: drops every pair with when <= t together with its entry and
\* yields the new State and the instant of the earliest pair left.
RECURSIVE PurgeLoop(_, _)
PurgeLoop(st, t) ==
    LET next == NextExpiration(st) IN
    IF ~IsSome(next) THEN [st |-> st, when |-> None]
    ELSE IF Unwrap(next) > t THEN [st |-> st, when |-> next]
    ELSE LET p == CHOOSE q \in st.expirations : q[1] = Unwrap(next)
         IN PurgeLoop([st EXCEPT !.entries = MapDel(st.entries, p[2]),
                                 !.expirations = st.expirations \ {p}], t)

PurgeExpiredKeys(st, t) ==
    IF st.is_shutdown THEN [st |-> st, when |-> None] ELSE PurgeLoop(st, t)

\* (Mutant: the worker is notified but the flag is not raised.)
ShutdownPurgeTask_NoFlag(st) == st

\* Db::shutdown_purge_task, under the lock: raises the shutdown flag.
ShutdownPurgeTask(st) == [st EXCEPT !.is_shutdown = TRUE]

----------------------------------------------------------------------------
(* The broadcast channels: tokio::sync::broadcast as db.rs uses it.  A     *)
(* channel is [tail, buf, rx_cnt]: tail counts the messages sent, buf is   *)
(* the ring (the last RingCapacity messages), rx_cnt the live receivers.   *)
(* A receiver is its cursor `next`, the position of the message it reads   *)
(* next.                                                                   *)

NewChannel == [tail |-> 0, buf |-> << >>, rx_cnt |-> 0]

\* Sender::subscribe: one more receiver; its cursor is NewReceiver.
AddReceiver(chan) == [chan EXCEPT !.rx_cnt = @ + 1]
\* (Mutant: the cursor starts at the oldest message the ring retains.)
NewReceiver_Oldest(chan) == chan.tail - Len(chan.buf)
NewReceiver(chan) == chan.tail

\* Db::subscribe, under the lock: creates the channel when it is absent.
DbSubscribe(st, ch) ==
    LET chan == IF ch \in DOMAIN st.pub_sub THEN st.pub_sub[ch] ELSE NewChannel
    IN [st EXCEPT !.pub_sub = MapPut(st.pub_sub, ch, AddReceiver(chan))]

\* (Mutant: a dropped receiver stays counted.)
DropReceivers_Leak(st, chs) == st

\* Dropping the receivers a connection holds on the channels chs.
DropReceivers(st, chs) ==
    [st EXCEPT !.pub_sub =
        [ch \in DOMAIN st.pub_sub |->
            IF ch \in chs THEN [st.pub_sub[ch] EXCEPT !.rx_cnt = @ - 1]
            ELSE st.pub_sub[ch]]]

\* Sender::send: fails without storing when there is no receiver, else
\* stores at the tail, overwriting the oldest slot of a full ring.
Send(chan, msg) ==
    IF chan.rx_cnt = 0 THEN [chan |-> chan, n |-> None]
    ELSE [chan |-> [chan EXCEPT
                     !.tail = @ + 1,
                     !.buf = IF Len(@) < RingCapacity THEN Append(@, msg)
                             ELSE Append(Tail(@), msg)],
          n |-> Some(chan.rx_cnt)]

\* Db::publish, under the lock.  `panics` is the Option::unwrap of line 195
\* on a channel that has no entry in pub_sub.
DbPublish(st, ch, msg) ==
    IF ch \notin DOMAIN st.pub_sub
    THEN [st |-> st, n |-> 0, panics |-> TRUE]
    ELSE LET r == Send(st.pub_sub[ch], msg)
         IN [st |-> [st EXCEPT !.pub_sub[ch] = r.chan],
             n |-> IF IsSome(r.n) THEN Unwrap(r.n) ELSE 0,
             panics |-> FALSE]

\* Receiver::recv on a cursor with tail > next: a cursor whose slot was
\* overwritten gets Lagged and moves to the oldest message retained; the
\* stream of subscribe_to_channel then loops and receives that message.
Lagged(chan, next) == chan.tail - next > RingCapacity
Oldest(chan) == chan.tail - Len(chan.buf)
RecvFrom(chan, next) == IF Lagged(chan, next) THEN Oldest(chan) ELSE next
RecvMsg(chan, next) == chan.buf[RecvFrom(chan, next) - Oldest(chan) + 1]

----------------------------------------------------------------------------
(* The connection handler: Handler::run (server.rs) and the commands'      *)
(* apply (cmd/*.rs).  hpc is "unborn" before the accept, "normal" and      *)
(* "sub" while Handler::run loops, "release" once Handler::run is over and *)
(* the task is about to drop its permit, "ending" between that drop and    *)
(* the end of the task, "done" after it.                                   *)

\* The wire history, kept while trace is on: the request a handler read
\* last, and the frames written in reply to it.
Recorded(c, r) == IF trace THEN [req EXCEPT ![c] = r] ELSE req
Written(c, frames) == IF trace THEN [out EXCEPT ![c] = frames] ELSE out

\* A handler that ends drops the connection and, with it, its history.
WireReset(c) ==
    /\ req' = [req EXCEPT ![c] = None]
    /\ out' = [out EXCEPT ![c] = << >>]
    /\ UNCHANGED <<cl, auxVars>>

\* Handler::run is over, by return or by unwinding: Subscribe::apply's
\* StreamMap and pending list are gone.  cause is "eof", "shutdown",
\* "error" (Err from the frame, the parse or the apply), "panic" (a panic
\* of the command itself) or "poisoned" (the mutex was poisoned before).
HandlerEnds(c, cause) ==
    /\ hpc' = [hpc EXCEPT ![c] = "release"]
    /\ hExit' = [hExit EXCEPT ![c] = cause]
    /\ subs' = [subs EXCEPT ![c] = EmptyMap]
    /\ pend' = [pend EXCEPT ![c] = << >>]
    /\ got' = [got EXCEPT ![c] = EmptyMap]

\* A command that locks the store panics on a poisoned mutex: lock().unwrap().
PoisonedEnds(c) ==
    /\ poisoned
    /\ HandlerEnds(c, "poisoned")
    /\ WireReset(c)
    /\ state' = DropReceivers(state, DOMAIN subs[c])
    /\ UNCHANGED <<poisoned, notified, workerPc, workerWhen, now, serverVars,
                   hShut, fresh, lastSet, sent, fired>>

\* The frame Get::apply writes for key (no frame when the lock panics).
GetReply(key) ==
    IF poisoned THEN Panic
    ELSE IF IsSome(DbGet(state, key)) THEN Bulk(Unwrap(DbGet(state, key)))
    ELSE Null

\* GET key in normal mode.
HandleGet(c, key) ==
    /\ hpc[c] = "normal"
    /\ \/ PoisonedEnds(c)
       \/ /\ ~poisoned
          /\ UNCHANGED vars

\* SET key value [EX|PX expire] in normal mode: Db::set up to the drop of
\* the lock.  When the worker is to be notified the handler is left at
\* "notify", between drop(state) and notify_one.
HandleSet(c, key, value, expire) ==
    /\ hpc[c] = "normal"
    /\ \/ PoisonedEnds(c)
       \/ /\ ~poisoned
          /\ LET r == DbSet(state, key, value, expire, now) IN
             /\ state' = r.st
             /\ hpc' = [hpc EXCEPT ![c] = IF r.notify THEN "notify" ELSE @]
          /\ lastSet' = [lastSet EXCEPT
                ![key] = Some([data |-> value,
                               due |-> IF IsSome(expire)
                                       THEN Some(now + Unwrap(expire))
                                       ELSE None])]
          /\ UNCHANGED <<poisoned, notified, workerPc, workerWhen, now,
                         serverVars, hShut, hExit, subs, pend, fresh, sent,
                         got, fired, wireVars>>

\* (Mutant: the SET does not notify the worker.)
SetNotifies_Forgets(c) ==
    /\ hpc[c] = "notify"
    /\ hpc' = [hpc EXCEPT ![c] = "normal"]
    /\ UNCHANGED <<storeVars, serverVars, hShut, hExit, subs, pend, fresh,
                   histVars>>

\* Db::set, after the lock: background_task.notify_one(), and Set::apply
\* goes on.
SetNotifies(c) ==
    /\ hpc[c] = "notify"
    /\ notified' = TRUE
    /\ hpc' = [hpc EXCEPT ![c] = "normal"]
    /\ UNCHANGED <<state, poisoned, workerPc, workerWhen, now, serverVars,
                   hShut, hExit, subs, pend, fresh, histVars>>

\* DEL key [key ...] in normal mode.
RECURSIVE DbDel(_, _)
DbDel(st, keys) ==
    IF keys = {} THEN st
    ELSE LET k == CHOOSE x \in keys : TRUE
         IN DbDel(DbDelKey(st, k), keys \ {k})

HandleDel(c, keys) ==
    /\ hpc[c] = "normal"
    /\ \/ PoisonedEnds(c)
       \/ /\ ~poisoned
          /\ state' = DbDel(state, keys)
          /\ lastSet' = [k \in Keys |-> IF k \in keys THEN None ELSE lastSet[k]]
          /\ UNCHANGED <<poisoned, notified, workerPc, workerWhen, now,
                         serverVars, connVars, sent, got, fired, wireVars>>

\* The frame Del::apply writes (no frame when the lock panics).
DelReply(keys) ==
    IF poisoned THEN Panic ELSE Simple("OK")

\* The frame Publish::apply writes (no frame when Db::publish panics).
PublishReply(ch, msg) ==
    IF poisoned \/ DbPublish(state, ch, msg).panics THEN Panic
    ELSE Integer(DbPublish(state, ch, msg).n)

\* Messages the rings have accepted so far, over the channels chs.
RECURSIVE SentCount(_)
SentCount(chs) ==
    IF chs = {} THEN 0
    ELSE LET ch == CHOOSE x \in chs : TRUE
         IN Len(sent[ch]) + SentCount(chs \ {ch})
Accepted == SentCount(Channels)

\* PUBLISH ch msg in normal mode.  A panic inside Db::publish unwinds
\* through the MutexGuard and poisons the mutex.
HandlePublish(c, ch, msg) ==
    /\ hpc[c] = "normal"
    /\ \/ PoisonedEnds(c)
       \/ /\ ~poisoned
          /\ DbPublish(state, ch, msg).panics
          /\ poisoned' = TRUE
          /\ HandlerEnds(c, "panic")
          /\ WireReset(c)
          /\ UNCHANGED <<state, notified, workerPc, workerWhen, now,
                         serverVars, hShut, fresh, lastSet, sent, fired>>
       \/ /\ ~poisoned
          /\ ~DbPublish(state, ch, msg).panics
          /\ LET r == DbPublish(state, ch, msg) IN
             /\ r.n > 0 => Accepted < MaxPublish
             /\ state' = r.st
             /\ sent' = IF r.n > 0 THEN [sent EXCEPT ![ch] = Append(@, msg)]
                        ELSE sent
          /\ UNCHANGED <<poisoned, notified, workerPc, workerWhen, now,
                         serverVars, connVars, lastSet, got, fired, wireVars>>

\* SUBSCRIBE chs in normal mode, the client's side left open:
\* Subscribe::apply starts with an empty StreamMap and chs to subscribe to.
ServeSubscribe(c, chs) ==
    /\ hpc[c] = "normal"
    /\ hpc' = [hpc EXCEPT ![c] = "sub"]
    /\ pend' = [pend EXCEPT ![c] = chs]
    /\ req' = Recorded(c, Request("normal", <<"subscribe">> \o chs, {}))
    /\ out' = Written(c, << >>)
    /\ UNCHANGED <<storeVars, serverVars, hShut, fresh, hExit, subs,
                   lastSet, sent, got, fired, auxVars>>

\* SUBSCRIBE chs in normal mode from a peer whose side is not modelled.
HandleSubscribe(c, chs) ==
    /\ ServeSubscribe(c, chs)
    /\ UNCHANGED cl

\* read_frame yields None: the peer closed the socket between frames.
HandleEof(c) ==
    /\ hpc[c] \in {"normal", "sub"}
    /\ hpc[c] = "sub" => pend[c] = << >>
    /\ HandlerEnds(c, "eof")
    /\ WireReset(c)
    /\ state' = DropReceivers(state, DOMAIN subs[c])
    /\ UNCHANGED <<poisoned, notified, workerPc, workerWhen, now, serverVars,
                   hShut, fresh, lastSet, sent, fired>>

\* read_frame, Command::try_from or the apply yields Err: a malformed
\* frame, a bad command shape, UNSUBSCRIBE in normal mode, or an EOF in
\* the middle of a frame.
HandleError(c) ==
    /\ hpc[c] \in {"normal", "sub"}
    /\ hpc[c] = "sub" => pend[c] = << >>
    /\ HandlerEnds(c, "error")
    /\ WireReset(c)
    /\ state' = DropReceivers(state, DOMAIN subs[c])
    /\ UNCHANGED <<poisoned, notified, workerPc, workerWhen, now, serverVars,
                   hShut, fresh, lastSet, sent, fired>>

\* PING [msg] in normal mode: Ping::apply writes its reply.
HandlePing(c, frame) ==
    /\ hpc[c] = "normal"
    /\ CommandTryFrom(frame).kind = "ping"
    /\ req' = Recorded(c, Request("normal", frame, {}))
    /\ out' = Written(c, <<PingReply(CommandTryFrom(frame).msg)>>)
    /\ UNCHANGED <<storeVars, serverVars, connVars, lastSet, sent, got, fired, cl, auxVars>>

\* (Mutant: an unknown command ends the connection without a reply.)
HandleUnknown_Closes(c, frame) ==
    /\ hpc[c] = "normal"
    /\ CommandTryFrom(frame).kind = "unknown"
    /\ HandlerEnds(c, "error")
    /\ req' = Recorded(c, Request("normal", frame, {}))
    /\ out' = Written(c, << >>)
    /\ UNCHANGED <<storeVars, serverVars, hShut, fresh, lastSet, sent, fired, cl, auxVars>>

\* A command with an unknown name in normal mode: Unknown::apply writes
\* the error frame and returns Ok, so Handler::run reads the next frame.
HandleUnknown(c, frame) ==
    /\ hpc[c] = "normal"
    /\ CommandTryFrom(frame).kind = "unknown"
    /\ req' = Recorded(c, Request("normal", frame, {}))
    /\ out' = Written(c, <<UnknownReply(CommandTryFrom(frame).cmd_name)>>)
    /\ UNCHANGED <<storeVars, serverVars, connVars, lastSet, sent, got, fired, cl, auxVars>>

\* (Mutant: UNSUBSCRIBE in normal mode is answered with an error frame.)
HandleUnsubscribe_Replies(c, frame) ==
    /\ hpc[c] = "normal"
    /\ CommandTryFrom(frame).kind = "unsubscribe"
    /\ req' = Recorded(c, Request("normal", frame, {}))
    /\ out' = Written(c, <<UnknownReply("unsubscribe")>>)
    /\ UNCHANGED <<storeVars, serverVars, connVars, lastSet, sent, got, fired, cl, auxVars>>

\* UNSUBSCRIBE in normal mode: Command::apply returns Err without
\* writing, Handler::run returns it, and the connection is dropped.
HandleUnsubscribe(c, frame) ==
    /\ hpc[c] = "normal"
    /\ CommandTryFrom(frame).kind = "unsubscribe"
    /\ HandlerEnds(c, "error")
    /\ req' = Recorded(c, Request("normal", frame, {}))
    /\ out' = Written(c, << >>)
    /\ UNCHANGED <<storeVars, serverVars, hShut, fresh, lastSet, sent, fired, cl, auxVars>>

\* Shutdown::recv completes in the select! of Handler::run or of
\* (Mutant: the shutdown signal is raced against the whole of the
\* command being served.)
HandleShutdown_Anywhere(c) ==
    /\ hpc[c] \in {"normal", "sub", "notify"}
    /\ ~notifyOpen
    /\ hShut' = [hShut EXCEPT ![c] = TRUE]
    /\ HandlerEnds(c, "shutdown")
    /\ WireReset(c)
    /\ state' = DropReceivers(state, DOMAIN subs[c])
    /\ fresh' = [fresh EXCEPT ![c] = None]
    /\ UNCHANGED <<poisoned, notified, workerPc, workerWhen, now, serverVars,
                   lastSet, sent, fired>>

\* Subscribe::apply: the sender is gone, the observer latches, and
\* Handler::run returns.
HandleShutdown(c) ==
    /\ hpc[c] \in {"normal", "sub"}
    /\ hpc[c] = "sub" => pend[c] = << >>
    /\ ~notifyOpen
    /\ hShut' = [hShut EXCEPT ![c] = TRUE]
    /\ HandlerEnds(c, "shutdown")
    /\ WireReset(c)
    /\ state' = DropReceivers(state, DOMAIN subs[c])
    /\ UNCHANGED <<poisoned, notified, workerPc, workerWhen, now, serverVars,
                   fresh, lastSet, sent, fired>>

\* (Mutant: the permit goes back only when handler.run() has returned on
\* a closed socket or on the shutdown signal.)
ReleasePermit_OnReturnOnly(c) ==
    /\ hpc[c] = "release"
    /\ hpc' = [hpc EXCEPT ![c] = "ending"]
    /\ hExit' = [hExit EXCEPT ![c] = "none"]
    /\ permits' = IF hExit[c] \in {"eof", "shutdown"} THEN permits + 1
                  ELSE permits
    /\ UNCHANGED <<storeVars, runPc, accPc, backoff, fails, notifyOpen, srvTx,
                   hShut, fresh, subs, pend, histVars>>

\* The spawned task after handler.run(): the result is logged and
\* dropped, then drop(permit).
ReleasePermit(c) ==
    /\ hpc[c] = "release"
    /\ hpc' = [hpc EXCEPT ![c] = "ending"]
    /\ hExit' = [hExit EXCEPT ![c] = "none"]
    /\ permits' = permits + 1
    /\ UNCHANGED <<storeVars, runPc, accPc, backoff, fails, notifyOpen, srvTx,
                   hShut, fresh, subs, pend, histVars>>

\* The task ends: the Handler, with its connection, its Shutdown and its
\* _shutdown_complete sender, is dropped.
TaskEnd(c) ==
    /\ hpc[c] = "ending"
    /\ hpc' = [hpc EXCEPT ![c] = "done"]
    /\ hShut' = [hShut EXCEPT ![c] = FALSE]
    /\ UNCHANGED <<storeVars, serverVars, hExit, subs, pend, fresh, histVars>>

----------------------------------------------------------------------------
(* Subscribe mode: Subscribe::apply (cmd/subscribe.rs).                    *)

\* subscribe_to_channel for the first pending channel, first statement:
\* Db::subscribe locks the store, creates the channel when it is absent and
\* returns a new receiver.  The lock is released before the StreamMap is
\* touched.  On a poisoned mutex the lock panics and the handler ends in
\* the middle of its SUBSCRIBE request, which stays on record.
SubscribeReceiver(c) ==
    /\ hpc[c] = "sub"
    /\ pend[c] # << >>
    /\ fresh[c] = None
    /\ \/ /\ poisoned
          /\ HandlerEnds(c, "poisoned")
          /\ state' = DropReceivers(state, DOMAIN subs[c])
          /\ UNCHANGED <<poisoned, notified, workerPc, workerWhen, now,
                         serverVars, hShut, fresh, lastSet, sent, fired, wireVars>>
       \/ /\ ~poisoned
          /\ LET ch == Head(pend[c])
                 st1 == DbSubscribe(state, ch)
             IN /\ state' = st1
                /\ fresh' = [fresh EXCEPT ![c] =
                                Some([rx |-> NewReceiver(st1.pub_sub[ch]),
                                      from |-> Len(sent[ch])])]
          /\ UNCHANGED <<poisoned, notified, workerPc, workerWhen, now,
                         serverVars, hpc, hShut, hExit, subs, pend, histVars>>

\* The ack of subscribe_to_channel: the channel and subscriptions.len().
SubscribeAck(ch, subscriptions) ==
    <<"subscribe", ch, Cardinality(DOMAIN subscriptions)>>

\* (Mutant: the stream a new one replaces is kept alive.)
SubscribeToChannel_KeepsOld(c) ==
    /\ hpc[c] = "sub"
    /\ pend[c] # << >>
    /\ fresh[c] # None
    /\ LET ch == Head(pend[c])
           new == Unwrap(fresh[c])
           subscriptions == MapPut(subs[c], ch, new.rx)
       IN /\ subs' = [subs EXCEPT ![c] = subscriptions]
          /\ got' = [got EXCEPT ![c] = MapPut(@, ch,
                        [from |-> new.from, seq |-> << >>])]
          /\ out' = Written(c, Append(out[c], SubscribeAck(ch, subscriptions)))
    /\ pend' = [pend EXCEPT ![c] = Tail(@)]
    /\ fresh' = [fresh EXCEPT ![c] = None]
    /\ UNCHANGED <<storeVars, serverVars, hpc, hShut, hExit, lastSet, sent,
                   fired, req, cl, auxVars>>

\* subscribe_to_channel, the rest: the insert into the StreamMap (a stream
\* already there under the same name is replaced and its receiver
\* dropped), and the subscribe ack.
SubscribeToChannel(c) ==
    /\ hpc[c] = "sub"
    /\ pend[c] # << >>
    /\ fresh[c] # None
    /\ LET ch == Head(pend[c])
           new == Unwrap(fresh[c])
           subscriptions == MapPut(subs[c], ch, new.rx)
       IN /\ state' = IF ch \in DOMAIN subs[c]
                      THEN DropReceivers(state, {ch}) ELSE state
          /\ subs' = [subs EXCEPT ![c] = subscriptions]
          /\ got' = [got EXCEPT ![c] = MapPut(@, ch,
                        [from |-> new.from, seq |-> << >>])]
          /\ out' = Written(c, Append(out[c], SubscribeAck(ch, subscriptions)))
    /\ pend' = [pend EXCEPT ![c] = Tail(@)]
    /\ fresh' = [fresh EXCEPT ![c] = None]
    /\ UNCHANGED <<poisoned, notified, workerPc, workerWhen, now,
                   serverVars, hpc, hShut, hExit, lastSet, sent, fired, req, cl, auxVars>>

\* (Mutant: Lagged ends the stream, and the StreamMap drops it.)
SubMessage_LagEnds(c, ch) ==
    /\ hpc[c] = "sub"
    /\ pend[c] = << >>
    /\ ch \in DOMAIN subs[c]
    /\ LET chan == state.pub_sub[ch]
           next == subs[c][ch]
       IN /\ next < chan.tail
          /\ IF Lagged(chan, next)
             THEN /\ subs' = [subs EXCEPT ![c] = MapDel(@, ch)]
                  /\ got' = got
             ELSE /\ subs' = [subs EXCEPT ![c][ch] = next + 1]
                  /\ got' = [got EXCEPT ![c][ch].seq =
                                Append(@, <<next, RecvMsg(chan, next)>>)]
    /\ UNCHANGED <<storeVars, serverVars, hpc, hShut, fresh, hExit, pend,
                   lastSet, sent, fired, wireVars>>

\* (Mutant: the message is taken from the stream and no frame is written.)
SubMessage_Unwritten(c, ch) ==
    /\ hpc[c] = "sub"
    /\ pend[c] = << >>
    /\ ch \in DOMAIN subs[c]
    /\ subs[c][ch] < state.pub_sub[ch].tail
    /\ subs' = [subs EXCEPT ![c][ch] = @ + 1]
    /\ UNCHANGED <<storeVars, serverVars, hpc, hShut, fresh, hExit, pend, histVars>>

\* The select! yields a message of channel ch: make_message_frame is
\* written.  The history records the position and the payload delivered.
SubMessage(c, ch) ==
    /\ hpc[c] = "sub"
    /\ pend[c] = << >>
    /\ ch \in DOMAIN subs[c]
    /\ LET chan == state.pub_sub[ch]
           next == subs[c][ch]
           pos == RecvFrom(chan, next)
       IN /\ next < chan.tail
          /\ subs' = [subs EXCEPT ![c][ch] = pos + 1]
          /\ got' = [got EXCEPT ![c][ch].seq =
                        Append(@, <<pos, RecvMsg(chan, next)>>)]
    /\ UNCHANGED <<storeVars, serverVars, hpc, hShut, fresh, hExit, pend,
                   lastSet, sent, fired, wireVars>>

\* handle_command, SUBSCRIBE chs, the client's side left open: the
\* channels join the pending list.
ServeMoreSubscribe(c, chs) ==
    /\ hpc[c] = "sub"
    /\ pend[c] = << >>
    /\ pend' = [pend EXCEPT ![c] = chs]
    /\ req' = Recorded(c, Request("sub", <<"subscribe">> \o chs, DOMAIN subs[c]))
    /\ out' = Written(c, << >>)
    /\ UNCHANGED <<storeVars, serverVars, hpc, hShut, fresh, hExit, subs,
                   lastSet, sent, got, fired, auxVars>>

\* SUBSCRIBE chs in subscribe mode from a peer whose side is not modelled.
SubSubscribe(c, chs) ==
    /\ ServeMoreSubscribe(c, chs)
    /\ UNCHANGED cl

\* The orders in which the keys of a StreamMap may be listed.
Orders(S) ==
    {q \in [1..Cardinality(S) -> S] : \A x \in S : \E i \in DOMAIN q : q[i] = x}

\* (Mutant: an ack is written only for a channel that was subscribed.)
RECURSIVE UnsubscribeAcks_Removed(_, _)
UnsubscribeAcks_Removed(chs, had) ==
    IF chs = << >> THEN << >>
    ELSE LET left == had \ {Head(chs)}
         IN (IF Head(chs) \in had
             THEN <<(<<"unsubscribe", Head(chs), Cardinality(left)>>)>>
             ELSE << >>) \o UnsubscribeAcks_Removed(Tail(chs), left)

\* The acks handle_command writes for UNSUBSCRIBE chs: for each listed
\* channel in turn, subscriptions.remove and then make_unsubscribe_frame
\* with the channel and subscriptions.len().
RECURSIVE UnsubscribeAcks(_, _)
UnsubscribeAcks(chs, had) ==
    IF chs = << >> THEN << >>
    ELSE LET left == had \ {Head(chs)}
         IN <<(<<"unsubscribe", Head(chs), Cardinality(left)>>)>>
                \o UnsubscribeAcks(Tail(chs), left)

\* The channels handle_command goes through: the listed ones, or the keys
\* of the StreamMap (in listing order) when the list is empty.
Unsubscribed(chs, keys) == IF chs = << >> THEN keys ELSE chs

Range(q) == {q[i] : i \in DOMAIN q}

\* handle_command, UNSUBSCRIBE chs, the client's side left open: each
\* channel gone through leaves the StreamMap, its receiver is dropped, and
\* one ack is written for it.
ServeUnsubscribe(c, chs) ==
    /\ hpc[c] = "sub"
    /\ pend[c] = << >>
    /\ \E keys \in Orders(DOMAIN subs[c]) :
          LET channels == Unsubscribed(chs, keys)
              gone == Range(channels) \cap DOMAIN subs[c]
          IN /\ state' = DropReceivers(state, gone)
             /\ subs' = [subs EXCEPT ![c] = [ch \in (DOMAIN @) \ gone |-> @[ch]]]
             /\ got' = [got EXCEPT ![c] = [ch \in (DOMAIN @) \ gone |-> @[ch]]]
             /\ req' = Recorded(c, Request("sub", <<"unsubscribe">> \o chs, DOMAIN subs[c]))
             /\ out' = Written(c, UnsubscribeAcks(channels, DOMAIN subs[c]))
    /\ UNCHANGED <<poisoned, notified, workerPc, workerWhen, now, serverVars,
                   hpc, hShut, fresh, hExit, pend, lastSet, sent, fired, auxVars>>

\* UNSUBSCRIBE chs from a peer whose side is not modelled.
SubUnsubscribe(c, chs) ==
    /\ ServeUnsubscribe(c, chs)
    /\ UNCHANGED cl

\* (Mutant: PING is served in subscribe mode as it is in normal mode.)
SubOtherCommand_Ping(c, frame) ==
    /\ hpc[c] = "sub"
    /\ pend[c] = << >>
    /\ CommandTryFrom(frame).kind \notin {"err", "subscribe", "unsubscribe"}
    /\ req' = Recorded(c, Request("sub", frame, DOMAIN subs[c]))
    /\ out' = Written(c,
                  IF CommandTryFrom(frame).kind = "ping"
                  THEN <<PingReply(CommandTryFrom(frame).msg)>>
                  ELSE <<UnknownReply(GetName(CommandTryFrom(frame)))>>)
    /\ UNCHANGED <<storeVars, serverVars, connVars, lastSet, sent, got, fired, cl, auxVars>>

\* handle_command, any command other than SUBSCRIBE and UNSUBSCRIBE: it
\* is not applied; Unknown::new(command.get_name()) writes the error frame
\* and Subscribe::apply goes on.
SubOtherCommand(c, frame) ==
    /\ hpc[c] = "sub"
    /\ pend[c] = << >>
    /\ CommandTryFrom(frame).kind \notin {"err", "subscribe", "unsubscribe"}
    /\ req' = Recorded(c, Request("sub", frame, DOMAIN subs[c]))
    /\ out' = Written(c, <<UnknownReply(GetName(CommandTryFrom(frame)))>>)
    /\ UNCHANGED <<storeVars, serverVars, connVars, lastSet, sent, got, fired, cl, auxVars>>

----------------------------------------------------------------------------
(* Handler::run on a socket the client pipelines requests on: the client   *)
(* sends request frames without waiting for the replies, the handler reads *)
(* them one at a time.                                                     *)

\* Requests a client sends on one connection at most.
MaxRequests == 3

\* Duration::from_secs and Duration::from_millis of SET's option, in
\* milliseconds (the unit of the clock).
ExpireMs(expire) ==
    IF expire = None THEN None
    ELSE IF Unwrap(expire)[1] = "EX" THEN Some(Unwrap(expire)[2] * 1000)
    ELSE Some(Unwrap(expire)[2])

\* The commands whose apply locks the store.
LockingKinds == {"get", "set", "del", "publish"}

\* Command::apply in normal mode, on a store whose mutex is not poisoned,
\* at instant t: the new State, whether the worker is notified, whether
\* the command panics under the lock, and the frame it writes.
Apply(cmd, st, t) ==
    CASE cmd.kind = "get" ->
           [st |-> st, notify |-> FALSE, panics |-> FALSE,
            reply |-> IF IsSome(DbGet(st, cmd.key))
                      THEN Bulk(Unwrap(DbGet(st, cmd.key))) ELSE Null]
      [] cmd.kind = "set" ->
           LET r == DbSet(st, cmd.key, cmd.value, ExpireMs(cmd.expire), t)
           IN [st |-> r.st, notify |-> r.notify, panics |-> FALSE,
               reply |-> Simple("OK")]
      [] cmd.kind = "del" ->
           [st |-> DbDel(st, Range(cmd.keys)), notify |-> FALSE,
            panics |-> FALSE, reply |-> Simple("OK")]
      [] cmd.kind = "publish" ->
           LET r == DbPublish(st, cmd.channel, cmd.message)
           IN [st |-> r.st, notify |-> FALSE, panics |-> r.panics,
               reply |-> Integer(r.n)]
      [] cmd.kind = "ping" ->
           [st |-> st, notify |-> FALSE, panics |-> FALSE,
            reply |-> PingReply(cmd.msg)]
      [] cmd.kind = "unknown" ->
           [st |-> st, notify |-> FALSE, panics |-> FALSE,
            reply |-> UnknownReply(cmd.cmd_name)]

\* The history of the last SET, after cmd has been applied at instant t.
LastSetAfter(cmd, t) ==
    CASE cmd.kind = "set" ->
           [lastSet EXCEPT ![cmd.key] =
               Some([data |-> cmd.value,
                     due |-> IF IsSome(cmd.expire)
                             THEN Some(t + Unwrap(ExpireMs(cmd.expire)))
                             ELSE None])]
      [] cmd.kind = "del" ->
           [k \in Keys |-> IF k \in Range(cmd.keys) THEN None ELSE lastSet[k]]
      [] OTHER -> lastSet

\* The client writes one more request frame to the socket.
ClientSend(c, frame) ==
    /\ hpc[c] = "normal"
    /\ Len(sock[c].reqs) < MaxRequests
    /\ sock' = [sock EXCEPT ![c].reqs = Append(@, frame)]
    /\ UNCHANGED <<storeVars, serverVars, connVars, lastSet, sent, got, fired,
                   req, out, cl, trace, latchVars, codecVars>>

\* One iteration of Handler::run in normal mode: read_frame yields the
\* next request of the socket, Command::from_frame parses it (an Err ends
\* the handler) and Command::apply serves it and writes its reply (an Err,
\* as for UNSUBSCRIBE, or a panic ends the handler before any reply).  A
\* SET that is to notify the worker is left at "notify", between
\* drop(state) and notify_one, its reply not yet written.
HandleFrame(c) ==
    /\ hpc[c] = "normal"
    /\ sock[c].read < Len(sock[c].reqs)
    /\ LET frame == sock[c].reqs[sock[c].read + 1]
           cmd == CommandTryFrom(frame)
           taken == [sock[c] EXCEPT !.read = @ + 1]
       IN /\ cmd.kind # "subscribe"
          /\ \/ /\ cmd.kind \in {"err", "unsubscribe"}
                /\ HandlerEnds(c, "error")
                /\ sock' = [sock EXCEPT ![c] = taken]
                /\ UNCHANGED <<state, poisoned, notified, lastSet, sent>>
             \/ /\ cmd.kind \in LockingKinds
                /\ poisoned
                /\ HandlerEnds(c, "poisoned")
                /\ sock' = [sock EXCEPT ![c] = taken]
                /\ UNCHANGED <<state, poisoned, notified, lastSet, sent>>
             \/ /\ cmd.kind \in {"ping", "unknown"} \/
                      (cmd.kind \in LockingKinds /\ ~poisoned)
                /\ LET r == Apply(cmd, state, now) IN
                   IF r.panics
                   THEN /\ poisoned' = TRUE
                        /\ HandlerEnds(c, "panic")
                        /\ sock' = [sock EXCEPT ![c] = taken]
                        /\ UNCHANGED <<state, notified, lastSet, sent>>
                   ELSE /\ cmd.kind = "publish" /\ r.reply # Integer(0)
                              => Accepted < MaxPublish
                        /\ state' = r.st
                        /\ hpc' = [hpc EXCEPT ![c] =
                                      IF r.notify THEN "notify" ELSE @]
                        /\ sock' = [sock EXCEPT ![c] =
                                       IF r.notify THEN taken
                                       ELSE [taken EXCEPT
                                               !.resp = Append(@, r.reply)]]
                        /\ lastSet' = LastSetAfter(cmd, now)
                        /\ sent' = IF cmd.kind = "publish" /\ r.reply # Integer(0)
                                   THEN [sent EXCEPT ![cmd.channel] =
                                            Append(@, cmd.message)]
                                   ELSE sent
                        /\ UNCHANGED <<poisoned, notified, hExit, subs, pend,
                                       got>>
    /\ UNCHANGED <<workerPc, workerWhen, now, serverVars, hShut, fresh, fired,
                   req, out, cl, trace, latchVars, codecVars>>

\* Db::set, after the lock, for a request of the socket: notify_one, and
\* Set::apply writes its reply.
FrameNotifies(c) ==
    /\ hpc[c] = "notify"
    /\ notified' = TRUE
    /\ hpc' = [hpc EXCEPT ![c] = "normal"]
    /\ sock' = [sock EXCEPT ![c].resp = Append(@, Simple("OK"))]
    /\ UNCHANGED <<state, poisoned, workerPc, workerWhen, now, serverVars,
                   hShut, hExit, subs, pend, fresh, lastSet, sent, got, fired,
                   req, out, cl, trace, latchVars, codecVars>>

----------------------------------------------------------------------------
(* The frame codec: Connection::write_frame (connection.rs), Frame::check  *)
(* and Frame::from (frame.rs), Connection::read_frame.  A byte is a        *)
(* one-character string, CR and LF stand for \r and \n, and a text (the    *)
(* String of Simple and Error, the Bytes of Bulk) is a sequence of bytes.  *)

CR == "CR"
LF == "LF"
CRLF == <<CR, LF>>

Array(v) == <<"Array", v>>

DigitBytes == <<"0", "1", "2", "3", "4", "5", "6", "7", "8", "9">>
IsDigit(b) == \E d \in DOMAIN DigitBytes : DigitBytes[d] = b
DigitValue(b) == (CHOOSE d \in DOMAIN DigitBytes : DigitBytes[d] = b) - 1

\* write!(buf, "{}", value): the decimal digits of value.
RECURSIVE Decimal(_)
Decimal(value) ==
    IF value < 10 THEN <<DigitBytes[value + 1]>>
    ELSE Append(Decimal(value \div 10), DigitBytes[(value % 10) + 1])

\* Connection::write_decimal.
WriteDecimal(value) == Decimal(value) \o CRLF

\* Connection::write_value on a frame that is not an Array (an Array
\* there is unreachable!()).
WriteValue(frame) ==
    CASE frame[1] = "Simple" -> <<"+">> \o frame[2] \o CRLF
      [] frame[1] = "Error" -> <<"-">> \o frame[2] \o CRLF
      [] frame[1] = "Integer" -> <<":">> \o WriteDecimal(frame[2])
      [] frame[1] = "Null" -> <<"$", "-", "1", CR, LF>>
      [] frame[1] = "Bulk" ->
           <<"$">> \o WriteDecimal(Len(frame[2])) \o frame[2] \o CRLF

RECURSIVE WriteValues(_)
WriteValues(entries) ==
    IF entries = << >> THEN << >>
    ELSE WriteValue(Head(entries)) \o WriteValues(Tail(entries))

\* Connection::write_frame: the bytes that reach the socket at the flush.
WriteFrame(frame) ==
    IF frame[1] = "Array"
    THEN <<"*">> \o WriteDecimal(Len(frame[2])) \o WriteValues(frame[2])
    ELSE WriteValue(frame)

\* The outcome of a step of the decoder on the bytes src with the cursor
\* at pos (the bytes before pos are consumed): res is "ok", "incomplete"
\* (FrameError::Incomplete) or "invalid" (FrameError::Other).
Cursor(res, pos, val) == [res |-> res, pos |-> pos, val |-> val]

\* get_line: the bytes from the cursor to the first CR LF, which is
\* skipped.
GetLine(src, pos) ==
    LET ends == {i \in pos..(Len(src) - 2) : src[i + 1] = CR /\ src[i + 2] = LF}
    IN IF ends = {} THEN Cursor("incomplete", pos, << >>)
       ELSE LET i == CHOOSE x \in ends : \A y \in ends : x <= y
            IN Cursor("ok", i + 2, SubSeq(src, pos + 1, i))

\* atoi::<u64>(line): the value of the digits line starts with, or None
\* when it starts with no digit.
RECURSIVE AtoiDigits(_, _)
AtoiDigits(line, acc) ==
    IF line = << >> \/ ~IsDigit(Head(line)) THEN acc
    ELSE AtoiDigits(Tail(line), acc * 10 + DigitValue(Head(line)))

AtoiBytes(line) ==
    IF line = << >> \/ ~IsDigit(Head(line)) THEN None
    ELSE Some(AtoiDigits(line, 0))

\* get_decimal.
GetDecimal(src, pos) ==
    LET line == GetLine(src, pos)
    IN IF line.res # "ok" THEN line
       ELSE IF AtoiBytes(line.val) = None THEN Cursor("invalid", pos, << >>)
       ELSE Cursor("ok", line.pos, Unwrap(AtoiBytes(line.val)))

\* skip.
Skip(src, pos, n) ==
    IF Len(src) - pos < n THEN Cursor("incomplete", pos, << >>)
    ELSE Cursor("ok", pos + n, << >>)

\* Frame::check: whether a whole frame is buffered at the cursor, and
\* where it ends.
RECURSIVE Check(_, _)
RECURSIVE CheckEntries(_, _, _)
CheckEntries(src, pos, n) ==
    IF n = 0 THEN Cursor("ok", pos, << >>)
    ELSE LET first == Check(src, pos)
         IN IF first.res # "ok" THEN first
            ELSE CheckEntries(src, first.pos, n - 1)

Check(src, pos) ==
    IF pos >= Len(src) THEN Cursor("incomplete", pos, << >>)
    ELSE LET type == src[pos + 1] IN
         CASE type \in {"+", "-"} -> GetLine(src, pos + 1)
           [] type = ":" -> GetDecimal(src, pos + 1)
           [] type = "$" ->
                IF pos + 1 >= Len(src) THEN Cursor("incomplete", pos, << >>)
                ELSE IF src[pos + 2] = "-" THEN Skip(src, pos + 1, 4)
                ELSE LET len == GetDecimal(src, pos + 1)
                     IN IF len.res # "ok" THEN len
                        ELSE Skip(src, len.pos, len.val + 2)
           [] type = "*" ->
                LET len == GetDecimal(src, pos + 1)
                IN IF len.res # "ok" THEN len
                   ELSE CheckEntries(src, len.pos, len.val)
           [] OTHER -> Cursor("invalid", pos, << >>)

\* Frame::from on bytes that Frame::check has accepted: the frame at the
\* cursor and the position after it.
RECURSIVE FromBytes(_, _)
RECURSIVE FromEntries(_, _, _)
FromEntries(src, pos, n) ==
    IF n = 0 THEN Cursor("ok", pos, << >>)
    ELSE LET first == FromBytes(src, pos)
             rest == FromEntries(src, first.pos, n - 1)
         IN Cursor("ok", rest.pos, <<first.val>> \o rest.val)

FromBytes(src, pos) ==
    LET type == src[pos + 1] IN
    CASE type = "+" ->
           LET line == GetLine(src, pos + 1)
           IN Cursor("ok", line.pos, Simple(line.val))
      [] type = "-" ->
           LET line == GetLine(src, pos + 1)
           IN Cursor("ok", line.pos, Error(line.val))
      [] type = ":" ->
           LET len == GetDecimal(src, pos + 1)
           IN Cursor("ok", len.pos, Integer(len.val))
      [] type = "$" ->
           IF src[pos + 2] = "-"
           THEN Cursor("ok", GetLine(src, pos + 1).pos, Null)
           ELSE LET len == GetDecimal(src, pos + 1)
                IN Cursor("ok", len.pos + len.val + 2,
                          Bulk(SubSeq(src, len.pos + 1, len.pos + len.val)))
      [] type = "*" ->
           LET len == GetDecimal(src, pos + 1)
               vec == FromEntries(src, len.pos, len.val)
           IN Cursor("ok", vec.pos, Array(vec.val))

\* Connection::parse_frame on the buffer buf: the frame Frame::from
\* builds when Frame::check accepts, and the bytes check has measured,
\* which are dropped from the buffer.
ParseFrame(buf) ==
    LET checked == Check(buf, 0)
    IN IF checked.res = "ok"
       THEN [res |-> "ok", frame |-> FromBytes(buf, 0).val,
             rest |-> SubSeq(buf, checked.pos + 1, Len(buf))]
       ELSE [res |-> checked.res, frame |-> Null, rest |-> buf]

\* The connection whose socket is followed byte by byte.
CodecConn == 1

\* The peer writes the frame whole.
PeerWrite(frame) ==
    /\ peer = "open"
    /\ Len(encoded) < MaxFrames
    /\ wire' = wire \o WriteFrame(frame)
    /\ encoded' = Append(encoded, frame)
    /\ UNCHANGED <<storeVars, serverVars, connVars, lastSet, sent, got, fired,
                   req, out, cl, trace, latchVars, sock, peer, buffer, decoded, readPc>>

\* The peer closes its end of the socket between two frames.
PeerClose ==
    /\ peer = "open"
    /\ peer' = "closed"
    /\ UNCHANGED <<storeVars, serverVars, connVars, lastSet, sent, got, fired,
                   req, out, cl, trace, latchVars, sock, wire, buffer, decoded, readPc,
                   encoded>>

\* The peer goes away after the first n bytes of the frame, the last one
\* it began to write.
PeerCloseWithin(frame, n) ==
    /\ peer = "open"
    /\ Len(encoded) < MaxFrames
    /\ n \in 1..(Len(WriteFrame(frame)) - 1)
    /\ wire' = wire \o SubSeq(WriteFrame(frame), 1, n)
    /\ encoded' = Append(encoded, frame)
    /\ peer' = "cut"
    /\ UNCHANGED <<storeVars, serverVars, connVars, lastSet, sent, got, fired,
                   req, out, cl, trace, latchVars, sock, buffer, decoded, readPc>>

\* (Mutant: parse_frame empties the buffer when it returns a frame.)
ReadFrameParsed_ClearsBuffer ==
    /\ hpc[CodecConn] = "normal"
    /\ readPc = "reading"
    /\ LET parsed == ParseFrame(buffer) IN
       \/ /\ parsed.res = "ok"
          /\ decoded' = Append(decoded, parsed.frame)
          /\ buffer' = << >>
          /\ UNCHANGED <<readPc, connVars, got>>
       \/ /\ parsed.res = "invalid"
          /\ readPc' = "invalid"
          /\ HandlerEnds(CodecConn, "error")
          /\ UNCHANGED <<decoded, buffer, hShut, fresh>>
    /\ UNCHANGED <<storeVars, serverVars, lastSet, sent, fired,
                   req, out, cl, trace, latchVars, sock, wire, peer, encoded>>

\* read_frame, parse_frame: a whole frame is buffered and is returned to
\* Handler::run, which calls read_frame again; or the buffer is invalid
\* and read_frame returns the error, which ends Handler::run.
ReadFrameParsed ==
    /\ hpc[CodecConn] = "normal"
    /\ readPc = "reading"
    /\ LET parsed == ParseFrame(buffer) IN
       \/ /\ parsed.res = "ok"
          /\ decoded' = Append(decoded, parsed.frame)
          /\ buffer' = parsed.rest
          /\ UNCHANGED <<readPc, connVars, got>>
       \/ /\ parsed.res = "invalid"
          /\ readPc' = "invalid"
          /\ HandlerEnds(CodecConn, "error")
          /\ UNCHANGED <<decoded, buffer, hShut, fresh>>
    /\ UNCHANGED <<storeVars, serverVars, lastSet, sent, fired,
                   req, out, cl, trace, latchVars, sock, wire, peer, encoded>>

\* read_frame, read_buf: no whole frame is buffered and the socket has
\* bytes: some of them, at least one, join the buffer.
ReadBuf(n) ==
    /\ hpc[CodecConn] = "normal"
    /\ readPc = "reading"
    /\ n \in 1..Len(wire)
    /\ ParseFrame(buffer).res = "incomplete"
    /\ buffer' = buffer \o SubSeq(wire, 1, n)
    /\ wire' = SubSeq(wire, n + 1, Len(wire))
    /\ UNCHANGED <<storeVars, serverVars, connVars, lastSet, sent, got, fired,
                   req, out, cl, trace, latchVars, sock, peer, decoded, readPc, encoded>>

\* (Mutant: the end of the stream is a clean close whatever is buffered.)
ReadEof_AlwaysClean ==
    /\ hpc[CodecConn] = "normal"
    /\ readPc = "reading"
    /\ wire = << >>
    /\ peer # "open"
    /\ ParseFrame(buffer).res = "incomplete"
    /\ readPc' = "none"
    /\ HandlerEnds(CodecConn, "eof")
    /\ UNCHANGED <<storeVars, serverVars, hShut, fresh, lastSet, sent, fired,
                   req, out, cl, trace, latchVars, sock, wire, peer, buffer, decoded,
                   encoded>>

\* read_frame, read_buf yields 0: the peer has closed and the socket is
\* drained.  With an empty buffer read_frame returns None and
\* Handler::run returns Ok; with bytes buffered it returns the error
\* "connection reset by peer" and Handler::run returns it.
ReadEof ==
    /\ hpc[CodecConn] = "normal"
    /\ readPc = "reading"
    /\ wire = << >>
    /\ peer # "open"
    /\ ParseFrame(buffer).res = "incomplete"
    /\ IF buffer = << >>
       THEN /\ readPc' = "none"
            /\ HandlerEnds(CodecConn, "eof")
       ELSE /\ readPc' = "reset"
            /\ HandlerEnds(CodecConn, "error")
    /\ UNCHANGED <<storeVars, serverVars, hShut, fresh, lastSet, sent, fired,
                   req, out, cl, trace, latchVars, sock, wire, peer, buffer, decoded,
                   encoded>>

----------------------------------------------------------------------------
(* The client library: Client and Subscriber (clients/client.rs).  cl     *)
(* holds Subscriber::subscribed_channels and how the last call ended; a    *)
(* client whose call returned an error makes no further call.              *)

\* Client::subscribe(channels): subscribe_cmd sends SUBSCRIBE and reads the
\* acks; the Subscriber it returns holds the channels as they were given.
ClientSubscribe(c, chs) ==
    /\ cl[c].ends = "ok"
    /\ ServeSubscribe(c, chs)
    /\ cl' = [cl EXCEPT ![c] = [list |-> chs, ends |-> "ok"]]

\* Subscriber::subscribe(channels): subscribe_cmd, then the channels are
\* appended to the list.
SubscriberSubscribe(c, chs) ==
    /\ cl[c].ends = "ok"
    /\ Len(cl[c].list) + Len(chs) <= MaxSubscribed
    /\ ServeMoreSubscribe(c, chs)
    /\ cl' = [cl EXCEPT ![c].list = @ \o chs]

\* The loop of Subscriber::unsubscribe over the num responses it expects:
\* a frame that is not an unsubscribe ack is an error; an ack on an empty
\* list is an error; the acked channel is taken out of the list (retain),
\* and it is an error when that does not shorten the list by exactly one.
\* The result is the list the call leaves, and how the call ends ("ok",
\* "err", or "waits" for a response that does not come).
RECURSIVE ReadUnsubscribeAcks(_, _, _)
ReadUnsubscribeAcks(list, num, frames) ==
    IF num = 0 THEN [list |-> list, ends |-> "ok"]
    ELSE IF frames = << >> THEN [list |-> list, ends |-> "waits"]
    ELSE LET response == Head(frames)
             kept == SelectSeq(list, LAMBDA x : x # response[2])
         IN IF response[1] # "unsubscribe" \/ Len(list) = 0
            THEN [list |-> list, ends |-> "err"]
            ELSE IF Len(kept) # Len(list) - 1
            THEN [list |-> kept, ends |-> "err"]
            ELSE ReadUnsubscribeAcks(kept, num - 1, Tail(frames))

\* Subscriber::unsubscribe(channels): the frame is sent, and as many
\* responses are read as channels were given, or as the list holds when
\* none was given.
SubscriberUnsubscribe(c, chs) ==
    /\ cl[c].ends = "ok"
    /\ ServeUnsubscribe(c, chs)
    /\ LET num == IF chs = << >> THEN Len(cl[c].list) ELSE Len(chs)
       IN cl' = [cl EXCEPT ![c] = ReadUnsubscribeAcks(@.list, num, out'[c])]

----------------------------------------------------------------------------
(* The listener: run, Server::run and Server::accept (server.rs).          *)

Unborn == {c \in Conns : hpc[c] = "unborn"}

\* (Mutant: the listener goes on to accept without waiting for a permit.)
AcquirePermit_NoWait ==
    /\ runPc = "select"
    /\ accPc = "acquire"
    /\ permits' = permits - 1
    /\ accPc' = "accept"
    /\ UNCHANGED <<storeVars, runPc, backoff, fails, notifyOpen, srvTx, connVars,
                   histVars>>

\* Server::run, acquire_owned: waits for a free permit.
AcquirePermit ==
    /\ runPc = "select"
    /\ accPc = "acquire"
    /\ permits > 0
    /\ permits' = permits - 1
    /\ accPc' = "accept"
    /\ UNCHANGED <<storeVars, runPc, backoff, fails, notifyOpen, srvTx, connVars,
                   histVars>>

\* Server::accept gets a socket; Server::run builds the Handler (with a
\* receiver of notify_shutdown and a clone of shutdown_complete_tx) and
\* spawns its task, which owns the permit.
AcceptOk ==
    /\ runPc = "select"
    /\ accPc = "accept"
    /\ Unborn # {}
    /\ LET c == CHOOSE x \in Unborn : \A y \in Unborn : x <= y
       IN hpc' = [hpc EXCEPT ![c] = "normal"]
    /\ accPc' = "acquire"
    /\ backoff' = 1
    /\ fails' = 0
    /\ UNCHANGED <<storeVars, runPc, permits, notifyOpen, srvTx, hShut, fresh,
                   hExit, subs, pend, histVars>>

\* (Mutant: Server::accept gives up as soon as the backoff has reached
\* MaxBackoff.)
AcceptFail_AtMaxBackoff ==
    /\ runPc = "select"
    /\ accPc = "accept"
    /\ IF backoff >= MaxBackoff
       THEN /\ accPc' = "failed"
            /\ permits' = permits + 1
       ELSE /\ accPc' = "sleep"
            /\ UNCHANGED permits
    /\ fails' = fails + 1
    /\ UNCHANGED <<storeVars, runPc, backoff, notifyOpen, srvTx, connVars,
                   histVars>>

\* listener.accept() fails: Server::accept returns the error once backoff
\* has passed MaxBackoff (Server::run then returns it, dropping the
\* permit), and sleeps backoff seconds otherwise.
AcceptFail ==
    /\ runPc = "select"
    /\ accPc = "accept"
    /\ IF backoff > MaxBackoff
       THEN /\ accPc' = "failed"
            /\ permits' = permits + 1
       ELSE /\ accPc' = "sleep"
            /\ UNCHANGED permits
    /\ fails' = fails + 1
    /\ UNCHANGED <<storeVars, runPc, backoff, notifyOpen, srvTx, connVars,
                   histVars>>

\* The backoff sleep is over: the backoff doubles and accept is retried.
BackoffOver ==
    /\ runPc = "select"
    /\ accPc = "sleep"
    /\ backoff' = backoff * 2
    /\ accPc' = "accept"
    /\ UNCHANGED <<storeVars, runPc, permits, notifyOpen, srvTx, fails, connVars,
                   histVars>>

\* What run does after its select!: notify_shutdown and the listener's
\* shutdown_complete_tx are dropped, and run awaits shutdown_complete_rx.
AfterSelect ==
    /\ notifyOpen' = FALSE
    /\ srvTx' = FALSE
    /\ runPc' = "await"

\* run's select!: the shutdown future resolves.  The Server::run future is
\* dropped, with the permit it may hold.
ShutdownFires ==
    /\ runPc = "select"
    /\ fired' = TRUE
    /\ permits' = IF accPc \in {"accept", "sleep"} THEN permits + 1 ELSE permits
    /\ accPc' = "dropped"
    /\ backoff' = 1
    /\ fails' = 0
    /\ AfterSelect
    /\ UNCHANGED <<storeVars, connVars, lastSet, sent, got, wireVars>>

\* (Mutant: after an accept error run awaits the handlers without
\* dropping notify_shutdown.)
AcceptLoopFailed_NoSignal ==
    /\ runPc = "select"
    /\ accPc = "failed"
    /\ srvTx' = FALSE
    /\ runPc' = "await"
    /\ UNCHANGED <<storeVars, accPc, backoff, fails, permits, notifyOpen,
                   connVars, histVars>>

\* run's select!: Server::run has returned the accept error.
AcceptLoopFailed ==
    /\ runPc = "select"
    /\ accPc = "failed"
    /\ AfterSelect
    /\ UNCHANGED <<storeVars, accPc, backoff, fails, permits, connVars, histVars>>

\* shutdown_complete_rx.recv() yields None once every handler task has
\* dropped its sender.  run then leaves its body, which drops the rest of
\* `server`, the DbDropGuard among it: Db::shutdown_purge_task locks the
\* mutex (a poisoned mutex makes the unwrap panic), raises the flag and
\* releases the lock.
\* (Mutant: the handlers hold no sender, only the listener's counts.)
AllSendersDropped_ListenerOnly == ~srvTx

AllSendersDropped == \A c \in Conns : hpc[c] \in {"unborn", "done"}

RunFinish ==
    /\ runPc = "await"
    /\ AllSendersDropped
    /\ IF poisoned
       THEN /\ runPc' = "panicked"
            /\ UNCHANGED <<state, notified>>
       ELSE /\ runPc' = "notify"
            /\ state' = ShutdownPurgeTask(state)
            /\ UNCHANGED notified
    /\ UNCHANGED <<poisoned, workerPc, workerWhen, now, accPc, backoff, fails,
                   permits, notifyOpen, srvTx, connVars, histVars>>

\* (Mutant: the guard raises the flag and leaves the worker alone.)
ShutdownNotifies_Silent ==
    /\ runPc = "notify"
    /\ runPc' = "returned"
    /\ UNCHANGED <<storeVars, accPc, backoff, fails, permits, notifyOpen,
                   srvTx, connVars, histVars>>

\* Db::shutdown_purge_task after drop(state): notify_one, and run returns.
ShutdownNotifies ==
    /\ runPc = "notify"
    /\ notified' = TRUE
    /\ runPc' = "returned"
    /\ UNCHANGED <<state, poisoned, workerPc, workerWhen, now, accPc, backoff,
                   fails, permits, notifyOpen, srvTx, connVars, histVars>>

----------------------------------------------------------------------------
(* The expiration worker: purge_expired_tasks (db.rs).                     *)

\* The loop condition, Shared::is_shutdown.
WorkerLoop ==
    /\ workerPc = "loop"
    /\ workerPc' = IF poisoned THEN "panicked"
                   ELSE IF state.is_shutdown THEN "exited" ELSE "purge"
    /\ UNCHANGED <<state, poisoned, notified, workerWhen, now, serverVars,
                   connVars, histVars>>

\* Shared::purge_expired_keys, then the wait the result selects.
WorkerPurge ==
    /\ workerPc = "purge"
    /\ IF poisoned
       THEN /\ workerPc' = "panicked"
            /\ UNCHANGED <<state, workerWhen>>
       ELSE LET r == PurgeExpiredKeys(state, now) IN
            /\ state' = r.st
            /\ workerWhen' = r.when
            /\ workerPc' = IF IsSome(r.when) THEN "sleep" ELSE "wait"
    /\ UNCHANGED <<poisoned, notified, now, serverVars, connVars, histVars>>

\* background_task.notified() completes, consuming the permit.
WorkerNotified ==
    /\ workerPc \in {"sleep", "wait"}
    /\ notified
    /\ notified' = FALSE
    /\ workerPc' = "loop"
    /\ workerWhen' = None
    /\ UNCHANGED <<state, poisoned, now, serverVars, connVars, histVars>>

\* sleep_until(when) completes.
WorkerTimer ==
    /\ workerPc = "sleep"
    /\ now >= Unwrap(workerWhen)
    /\ workerPc' = "loop"
    /\ workerWhen' = None
    /\ UNCHANGED <<state, poisoned, notified, now, serverVars, connVars,
                   histVars>>

\* Time passes.
Tick ==
    /\ now < MaxTime
    /\ now' = now + 1
    /\ UNCHANGED <<state, poisoned, notified, workerPc, workerWhen,
                   serverVars, connVars, histVars>>

----------------------------------------------------------------------------
(* The shutdown observer: Shutdown (shutdown.rs).  hShut[c] is its         *)
(* is_shutdown field, signals and notifyOpen are the broadcast channel     *)
(* behind its receiver, and observer[c] records the calls of recv: pc is   *)
(* "in" while a call awaits the broadcast, seen counts the values its      *)
(* receiver has taken, awaited the times the broadcast was awaited and     *)
(* completed the calls that returned.                                      *)

MaxRecv == 2

Idle == [pc |-> "out", seen |-> 0, awaited |-> 0, completed |-> 0]

\* The sender sends the one value of the shutdown signal.
SignalSent ==
    /\ notifyOpen
    /\ signals = 0
    /\ signals' = 1
    /\ UNCHANGED <<storeVars, serverVars, connVars, lastSet, sent, got, fired,
                   req, out, cl, trace, sock, codecVars, observer>>

\* The sender is dropped.
SenderDropped ==
    /\ notifyOpen
    /\ notifyOpen' = FALSE
    /\ UNCHANGED <<storeVars, runPc, accPc, backoff, permits, srvTx, fails,
                   connVars, histVars>>

\* (Mutant: recv awaits the broadcast whatever is_shutdown says.)
RecvCalled_NoShortcut(c) ==
    /\ observer[c].pc = "out"
    /\ observer[c].completed < MaxRecv
    /\ hShut[c] \/ observer[c].awaited < MaxRecv
    /\ observer' = [observer EXCEPT ![c].pc = "in", ![c].awaited = @ + 1]
    /\ UNCHANGED <<storeVars, serverVars, connVars, lastSet, sent, got, fired,
                   req, out, cl, trace, sock, codecVars, signals>>

\* Shutdown::recv is called: it returns at once when is_shutdown is set
\* and awaits notify.recv() otherwise.
RecvCalled(c) ==
    /\ observer[c].pc = "out"
    /\ observer[c].completed < MaxRecv
    /\ hShut[c] \/ observer[c].awaited < MaxRecv
    /\ observer' = IF hShut[c]
                   THEN [observer EXCEPT ![c].completed = @ + 1]
                   ELSE [observer EXCEPT ![c].pc = "in", ![c].awaited = @ + 1]
    /\ UNCHANGED <<storeVars, serverVars, connVars, lastSet, sent, got, fired,
                   req, out, cl, trace, sock, codecVars, signals>>

\* notify.recv() resolves.
Resolves(c) == observer[c].seen < signals \/ ~notifyOpen

\* (Mutant: recv returns without remembering the signal.)
RecvCompleted_Forgets(c) ==
    /\ observer[c].pc = "in"
    /\ Resolves(c)
    /\ observer' = [observer EXCEPT ![c].pc = "out", ![c].completed = @ + 1,
                                    ![c].seen = signals]
    /\ UNCHANGED <<storeVars, serverVars, connVars, lastSet, sent, got, fired,
                   req, out, cl, trace, sock, codecVars, signals>>

\* notify.recv() resolves, with the value or with the error of a closed
\* channel: the result is dropped, is_shutdown is set and recv returns.
RecvCompleted(c) ==
    /\ observer[c].pc = "in"
    /\ Resolves(c)
    /\ hShut' = [hShut EXCEPT ![c] = TRUE]
    /\ observer' = [observer EXCEPT ![c].pc = "out", ![c].completed = @ + 1,
                                    ![c].seen = signals]
    /\ UNCHANGED <<storeVars, serverVars, hpc, hExit, subs, pend, fresh,
                   lastSet, sent, got, fired, req, out, cl, trace, sock,
                   codecVars, signals>>

\* The select! that called recv completes with another branch: the recv
\* future is dropped while it awaits.
RecvDropped(c) ==
    /\ observer[c].pc = "in"
    /\ observer' = [observer EXCEPT ![c].pc = "out"]
    /\ UNCHANGED <<storeVars, serverVars, connVars, lastSet, sent, got, fired,
                   req, out, cl, trace, sock, codecVars, signals>>

----------------------------------------------------------------------------
(* Specifications.                                                         *)

EmptyState == [entries |-> EmptyMap, pub_sub |-> EmptyMap,
               expirations |-> {}, is_shutdown |-> FALSE]

\* run has built the Server (Db::new has spawned the worker) and polls its
\* select! for the first time.
Init ==
    /\ state = EmptyState
    /\ poisoned = FALSE
    /\ notified = FALSE
    /\ workerPc = "loop"
    /\ workerWhen = None
    /\ now = 0
    /\ runPc = "select"
    /\ accPc = "acquire"
    /\ backoff = 1
    /\ permits = MAX_CONNECTIONS
    /\ notifyOpen = TRUE
    /\ srvTx = TRUE
    /\ hpc = [c \in Conns |-> "unborn"]
    /\ hShut = [c \in Conns |-> FALSE]
    /\ hExit = [c \in Conns |-> "none"]
    /\ subs = [c \in Conns |-> EmptyMap]
    /\ pend = [c \in Conns |-> << >>]
    /\ lastSet = [k \in Keys |-> None]
    /\ sent = [ch \in Channels |-> << >>]
    /\ got = [c \in Conns |-> EmptyMap]
    /\ fired = FALSE
    /\ fails = 0
    /\ fresh = [c \in Conns |-> None]
    /\ req = [c \in Conns |-> None]
    /\ out = [c \in Conns |-> << >>]
    /\ cl = [c \in Conns |-> NoSubscriber]
    /\ sock = [c \in Conns |-> NoTraffic]
    /\ wire = << >>
    /\ peer = "open"
    /\ buffer = << >>
    /\ decoded = << >>
    /\ readPc = "reading"
    /\ encoded = << >>
    /\ signals = 0
    /\ observer = [c \in Conns |-> Idle]
    /\ trace = FALSE

\* The server as a whole: the listener, the handlers, the worker.  The
\* clients write keys without a TTL and use one channel.
Next ==
    \/ AcquirePermit
    \/ AcceptOk
    \/ AcceptFail
    \/ BackoffOver
    \/ ShutdownFires
    \/ AcceptLoopFailed
    \/ RunFinish
    \/ ShutdownNotifies
    \/ WorkerLoop
    \/ WorkerPurge
    \/ WorkerNotified
    \/ \E c \in Conns : HandleGet(c, "k1")
    \/ \E c \in Conns : HandleSet(c, "k1", "v1", None)
    \/ \E c \in Conns : HandlePublish(c, "a", "m1")
    \/ \E c \in Conns : HandleSubscribe(c, <<"a">>)
    \/ \E c \in Conns : SubscribeReceiver(c)
    \/ \E c \in Conns : SubscribeToChannel(c)
    \/ \E c \in Conns : SubMessage(c, "a")
    \/ \E c \in Conns : SubUnsubscribe(c, << >>)
    \/ \E c \in Conns : HandleEof(c)
    \/ \E c \in Conns : HandleError(c)
    \/ \E c \in Conns : HandleShutdown(c)
    \/ \E c \in Conns : ReleasePermit(c)
    \/ \E c \in Conns : TaskEnd(c)

Spec == Init /\ [][Next]_vars

\* The store under load: MAX_CONNECTIONS connections are being served (the
\* listener waits for a permit), the clients read, write with and without
\* a TTL, delete, and publish to a channel nobody subscribed to; the
\* worker purges while time passes.
Served == 1..MAX_CONNECTIONS

Serving ==
    /\ state = EmptyState
    /\ poisoned = FALSE
    /\ notified = FALSE
    /\ workerPc = "loop"
    /\ workerWhen = None
    /\ now = 0
    /\ runPc = "select"
    /\ accPc = "acquire"
    /\ backoff = 1
    /\ permits = 0
    /\ notifyOpen = TRUE
    /\ srvTx = TRUE
    /\ hpc = [c \in Conns |-> IF c \in Served THEN "normal" ELSE "unborn"]
    /\ hShut = [c \in Conns |-> FALSE]
    /\ hExit = [c \in Conns |-> "none"]
    /\ subs = [c \in Conns |-> EmptyMap]
    /\ pend = [c \in Conns |-> << >>]
    /\ lastSet = [k \in Keys |-> None]
    /\ sent = [ch \in Channels |-> << >>]
    /\ got = [c \in Conns |-> EmptyMap]
    /\ fired = FALSE
    /\ fails = 0
    /\ fresh = [c \in Conns |-> None]
    /\ req = [c \in Conns |-> None]
    /\ out = [c \in Conns |-> << >>]
    /\ cl = [c \in Conns |-> NoSubscriber]
    /\ sock = [c \in Conns |-> NoTraffic]
    /\ wire = << >>
    /\ peer = "open"
    /\ buffer = << >>
    /\ decoded = << >>
    /\ readPc = "reading"
    /\ encoded = << >>
    /\ signals = 0
    /\ observer = [c \in Conns |-> Idle]

InitServed == Serving /\ trace = FALSE

Expires == {None} \cup {Some(d) : d \in 0..MaxTtl}

NextStore ==
    \/ \E c \in Served, k \in Keys : HandleGet(c, k)
    \/ \E c \in Served, k \in Keys, v \in Values, e \in Expires :
          HandleSet(c, k, v, e)
    \/ \E c \in Served : SetNotifies(c)
    \/ \E c \in Served, ks \in (SUBSET Keys) \ {{}} : HandleDel(c, ks)
    \/ \E c \in Served : HandlePublish(c, "a", "m1")
    \/ WorkerLoop
    \/ WorkerPurge
    \/ WorkerNotified
    \/ WorkerTimer
    \/ Tick

SpecStore == InitServed /\ [][NextStore]_vars

\* The worker task is scheduled, its timer fires when due, and a SET that
\* has released the lock goes on to notify_one.
FairStore ==
    /\ SpecStore
    /\ WF_vars(WorkerLoop)
    /\ WF_vars(WorkerPurge)
    /\ WF_vars(WorkerNotified)
    /\ WF_vars(WorkerTimer)
    /\ \A c \in Served : WF_vars(SetNotifies(c))

\* The store is shut down under load: the connections being served write
\* a key with and without a TTL and publish to a channel nobody subscribed
\* to, the shutdown signal ends them, run drops the store, and the worker
\* purges while time passes.
NextDrop ==
    \/ \E c \in Served, e \in Expires : HandleSet(c, "k1", "v1", e)
    \/ \E c \in Served : SetNotifies(c)
    \/ \E c \in Served : HandlePublish(c, "a", "m1")
    \/ ShutdownFires
    \/ \E c \in Served : HandleShutdown(c)
    \/ \E c \in Served : ReleasePermit(c)
    \/ \E c \in Served : TaskEnd(c)
    \/ RunFinish
    \/ ShutdownNotifies
    \/ WorkerLoop
    \/ WorkerPurge
    \/ WorkerNotified
    \/ WorkerTimer
    \/ Tick

SpecDrop == InitServed /\ [][NextDrop]_vars

\* The tasks are scheduled and the timer fires when due.
FairDrop ==
    /\ SpecDrop
    /\ \A c \in Served : SF_vars(HandleShutdown(c))
    /\ \A c \in Served : WF_vars(SetNotifies(c))
    /\ \A c \in Served : WF_vars(ReleasePermit(c))
    /\ \A c \in Served : WF_vars(TaskEnd(c))
    /\ WF_vars(RunFinish)
    /\ WF_vars(ShutdownNotifies)
    /\ WF_vars(WorkerLoop)
    /\ WF_vars(WorkerPurge)
    /\ WF_vars(WorkerNotified)
    /\ WF_vars(WorkerTimer)

\* The observers of the connections being served: recv is called, also
\* after it has returned, and dropped by its select!, while the signal is
\* sent or its sender dropped.
NextLatch ==
    \/ SignalSent
    \/ SenderDropped
    \/ \E c \in Served : RecvCalled(c)
    \/ \E c \in Served : RecvCompleted(c)
    \/ \E c \in Served : RecvDropped(c)

SpecLatch == InitServed /\ [][NextLatch]_vars

\* One name for a key and for a channel: the connections being served
\* read, write and delete the key, subscribe to the channel, unsubscribe
\* from it and publish on it, and the worker purges.
SharedName == "a"

NextNames ==
    \/ \E c \in Served : HandleGet(c, SharedName)
    \/ \E c \in Served, e \in {None, Some(1)} :
          HandleSet(c, SharedName, "v1", e)
    \/ \E c \in Served : SetNotifies(c)
    \/ \E c \in Served : HandleDel(c, {SharedName})
    \/ \E c \in Served : HandleSubscribe(c, <<SharedName>>)
    \/ \E c \in Served : SubscribeReceiver(c)
    \/ \E c \in Served : SubscribeToChannel(c)
    \/ \E c \in Served : SubMessage(c, SharedName)
    \/ \E c \in Served : SubUnsubscribe(c, <<SharedName>>)
    \/ \E c \in Served : HandlePublish(c, SharedName, "m1")
    \/ WorkerLoop
    \/ WorkerPurge
    \/ WorkerNotified
    \/ WorkerTimer
    \/ Tick

SpecNames == InitServed /\ [][NextNames]_vars

\* Pub/sub under load: the connections being served subscribe, unsubscribe,
\* publish and disconnect.
ChannelLists == {<<"a">>, <<"b">>, <<"a", "b">>}
UnsubscribeLists == {<< >>, <<"a">>, <<"b">>, <<"a", "b">>}

NextPubSub ==
    \/ \E c \in Served, chs \in ChannelLists : HandleSubscribe(c, chs)
    \/ \E c \in Served : SubscribeReceiver(c)
    \/ \E c \in Served : SubscribeToChannel(c)
    \/ \E c \in Served, ch \in Channels : SubMessage(c, ch)
    \/ \E c \in Served, chs \in ChannelLists : SubSubscribe(c, chs)
    \/ \E c \in Served, chs \in UnsubscribeLists : SubUnsubscribe(c, chs)
    \/ \E c \in Served, ch \in Channels, m \in Msgs : HandlePublish(c, ch, m)
    \/ \E c \in Served : HandleEof(c)

SpecPubSub == InitServed /\ [][NextPubSub]_vars

\* The wire under load: the connections being served send every kind of
\* request, in normal mode and in subscribe mode, and their requests and
\* the replies are recorded.
InitWire == Serving /\ trace = TRUE

Frames == {<<"PING">>, <<"Ping", "hi">>, <<"FOO", "k1", "v1">>,
           <<"UNSUBSCRIBE", "a">>, <<"GET", "k1">>, <<"SET", "k1", "v2">>,
           <<"DEL", "k1">>, <<"PUBLISH", "a", "m1">>}

NextWire ==
    \/ \E c \in Served : HandleGet(c, "k1")
    \/ \E c \in Served : HandleSet(c, "k1", "v1", None)
    \/ \E c \in Served : HandlePublish(c, "a", "m1")
    \/ \E c \in Served, frame \in Frames : HandlePing(c, frame)
    \/ \E c \in Served, frame \in Frames : HandleUnknown(c, frame)
    \/ \E c \in Served, frame \in Frames : HandleUnsubscribe(c, frame)
    \/ \E c \in Served, chs \in ChannelLists : HandleSubscribe(c, chs)
    \/ \E c \in Served : SubscribeReceiver(c)
    \/ \E c \in Served : SubscribeToChannel(c)
    \/ \E c \in Served, chs \in ChannelLists : SubSubscribe(c, chs)
    \/ \E c \in Served, chs \in UnsubscribeLists : SubUnsubscribe(c, chs)
    \/ \E c \in Served, frame \in Frames : SubOtherCommand(c, frame)
    \/ \E c \in Served : HandleEof(c)

SpecWire == InitWire /\ [][NextWire]_vars

\* A pipelined connection: connection 1 sends its requests ahead of the
\* replies while another connection publishes, subscribes to the channel
\* or leaves.
Pipelined == {1}
Others == Served \ Pipelined

PipeFrames == {<<"GET", "k1">>, <<"SET", "k1", "v1">>,
               <<"SET", "k1", "v2", "ex", "1">>,
               <<"SET", "k1", "v2", "NX">>,
               <<"SET", "k1", "v2", "XX", "1">>,
               <<"DEL", "k1">>, <<"PING">>, <<"Ping", "hi">>,
               <<"FOO", "k1", "v1">>, <<"PUBLISH", "a", "m1">>,
               <<"UNSUBSCRIBE", "a">>}

NextPipe ==
    \/ \E c \in Pipelined, frame \in PipeFrames : ClientSend(c, frame)
    \/ \E c \in Pipelined : HandleFrame(c)
    \/ \E c \in Pipelined : FrameNotifies(c)
    \/ \E c \in Others : HandlePublish(c, "a", "m1")
    \/ \E c \in Others : HandleSubscribe(c, <<"a">>)
    \/ \E c \in Others : SubscribeReceiver(c)
    \/ \E c \in Others : SubscribeToChannel(c)
    \/ \E c \in Others : HandleEof(c)

SpecPipe == InitServed /\ [][NextPipe]_vars

\* Shutdown under load: connection 1 sends its requests ahead of the
\* replies, another connection subscribes, is sent messages and publishes,
\* and the shutdown signal reaches the handlers.
QuitFrames == {<<"GET", "k1">>, <<"SET", "k1", "v1">>,
               <<"SET", "k1", "v2", "px", "1">>, <<"DEL", "k1">>,
               <<"PUBLISH", "a", "m1">>}

NextQuit ==
    \/ \E c \in Pipelined, frame \in QuitFrames : ClientSend(c, frame)
    \/ \E c \in Pipelined : HandleFrame(c)
    \/ \E c \in Pipelined : FrameNotifies(c)
    \/ \E c \in Others, chs \in ChannelLists : HandleSubscribe(c, chs)
    \/ \E c \in Others : SubscribeReceiver(c)
    \/ \E c \in Others : SubscribeToChannel(c)
    \/ \E c \in Others, chs \in ChannelLists : SubSubscribe(c, chs)
    \/ \E c \in Others : SubMessage(c, "a")
    \/ ShutdownFires
    \/ \E c \in Served : HandleShutdown(c)

SpecQuit == InitWire /\ [][NextQuit]_vars

\* The codec at work: a peer writes frames to the socket of one
\* connection, whole or cut short, and closes; the connection reads them.
Texts == {<<"a">>} \cup UNION {[1..n -> {CR, LF}] : n \in 0..MaxText}
TextFrames == {Simple(t) : t \in Texts} \cup {Error(t) : t \in Texts}
                  \cup {Bulk(t) : t \in Texts}
FlatFrames == {Integer(0), Integer(10), Null}
Entries == {Bulk(<<"a">>), Null}
ArrayFrames == {Array(v) : v \in UNION {[1..n -> Entries] : n \in 0..MaxArray}}
CodecFrames == TextFrames \cup FlatFrames \cup ArrayFrames

NextCodec ==
    \/ \E frame \in CodecFrames : PeerWrite(frame)
    \/ PeerClose
    \/ \E frame \in CodecFrames :
          \E n \in 1..(Len(WriteFrame(frame)) - 1) : PeerCloseWithin(frame, n)
    \/ ReadFrameParsed
    \/ \E n \in 1..Len(wire) : ReadBuf(n)
    \/ ReadEof

SpecCodec == InitServed /\ [][NextCodec]_vars

\* The client library at work: the connections being served are driven
\* through Client::subscribe, Subscriber::subscribe and
\* Subscriber::unsubscribe, or publish.
ClientLists == {<<"a">>, <<"a", "b">>, <<"a", "a", "b">>}

NextClient ==
    \/ \E c \in Served, chs \in ClientLists : ClientSubscribe(c, chs)
    \/ \E c \in Served, chs \in ClientLists : SubscriberSubscribe(c, chs)
    \/ \E c \in Served, chs \in UnsubscribeLists : SubscriberUnsubscribe(c, chs)
    \/ \E c \in Served : SubscribeReceiver(c)
    \/ \E c \in Served : SubscribeToChannel(c)
    \/ \E c \in Served : HandlePublish(c, "a", "m1")
    \/ \E c \in Served : HandleEof(c)

SpecClient == InitWire /\ [][NextClient]_vars

-----------------------------------------------------------------------------
\* Read-your-writes and expiry (spec 3, 4.3, 8).

\* The last SET of key k is still in force: no TTL, or the TTL has not
\* elapsed.  (A DEL clears lastSet.)
InForce(k) ==
    /\ IsSome(lastSet[k])
    /\ \/ ~IsSome(Unwrap(lastSet[k]).due)
       \/ now < Unwrap(Unwrap(lastSet[k]).due)

\* The TTL of the last SET of key k has elapsed.
Elapsed(k) ==
    /\ IsSome(lastSet[k])
    /\ IsSome(Unwrap(lastSet[k]).due)
    /\ now >= Unwrap(Unwrap(lastSet[k]).due)

\* C1: after SET K V completes, a GET K from any connection returns V until
\* the next SET K, a DEL K or the elapse of K's TTL.
C1_ReadYourWrites ==
    \A k \in Keys :
        InForce(k) => GetReply(k) = Bulk(Unwrap(lastSet[k]).data)

\* While the mutex is not poisoned the read does return the value.
C1_UnpoisonedReads ==
    \A k \in Keys :
        (InForce(k) /\ ~poisoned) =>
            GetReply(k) = Bulk(Unwrap(lastSet[k]).data)

\* C2: once the TTL of a SET has elapsed, GET returns Null whether or not
\* the background worker has removed the entry yet.
C2_ExpiredReadsNull ==
    \A k \in Keys : Elapsed(k) => GetReply(k) = Null

\* C3: a failure in one connection never makes another connection's command
\* or the background worker fail: no handler and no worker is ended by a
\* mutex some other handler poisoned.
C3_FailureIsolation ==
    /\ \A c \in Conns : hExit[c] # "poisoned"
    /\ workerPc # "panicked"

\* C4: PUBLISH to a channel without subscribers answers 0, whether the
\* channel exists with no receiver or was never created.
NoSubscribers(ch) ==
    ch \notin DOMAIN state.pub_sub \/ state.pub_sub[ch].rx_cnt = 0

C4_PublishNobodyIsZero ==
    \A ch \in Channels, m \in Msgs :
        NoSubscribers(ch) => PublishReply(ch, m) = Integer(0)

-----------------------------------------------------------------------------
\* Pub/sub delivery (spec 4.5, 8).

\* The positions in ch's publish order that connection c has been sent.
Positions(c, ch) ==
    {got[c][ch].seq[i][1] : i \in 1..Len(got[c][ch].seq)}

\* C5: what a subscriber is sent on a channel is, in order, a subsequence of
\* the messages published on it after the subscription, and a message is
\* missing only if the subscriber fell more than the ring capacity behind.
C5_InOrderSubsequence ==
    \A c \in Conns :
        \A ch \in DOMAIN got[c] :
            LET g == got[c][ch] IN
            /\ \A i \in 1..Len(g.seq) :
                  /\ g.seq[i][1] >= g.from
                  /\ g.seq[i][1] < Len(sent[ch])
                  /\ g.seq[i][2] = sent[ch][g.seq[i][1] + 1]
            /\ \A i, j \in 1..Len(g.seq) :
                  i < j => g.seq[i][1] < g.seq[j][1]
            /\ \A i \in 1..Len(g.seq) :
                  \A p \in g.from..g.seq[i][1] :
                      p \notin Positions(c, ch) =>
                          Len(sent[ch]) - p > RingCapacity

\* A subscriber that was sent a message, lagged, and was sent a later one.
C5_Witness ==
    \E c \in Conns :
        \E ch \in DOMAIN got[c] :
            /\ Len(got[c][ch].seq) >= 2
            /\ \E p \in 0..MaxPublish :
                  /\ p > got[c][ch].seq[1][1]
                  /\ p < got[c][ch].seq[Len(got[c][ch].seq)][1]
                  /\ p \notin Positions(c, ch)

\* One channel under load: the connections being served subscribe to it,
\* subscribe again, unsubscribe, publish to it and disconnect.
NextDeliver ==
    \/ \E c \in Served : HandleSubscribe(c, <<"a">>)
    \/ \E c \in Served : SubscribeReceiver(c)
    \/ \E c \in Served : SubscribeToChannel(c)
    \/ \E c \in Served : SubMessage(c, "a")
    \/ \E c \in Served : SubSubscribe(c, <<"a">>)
    \/ \E c \in Served : SubUnsubscribe(c, << >>)
    \/ \E c \in Served, m \in Msgs : HandlePublish(c, "a", m)
    \/ \E c \in Served : HandleEof(c)

SpecDeliver == InitServed /\ [][NextDeliver]_vars

\* Subscribing again: the connections being served subscribe to a
\* channel, to both, or to one channel twice, again once they are in
\* subscribe mode, are sent messages and publish.
AgainLists == {<<"a">>, <<"a", "a">>, <<"a", "b">>}

NextAgain ==
    \/ \E c \in Served, chs \in AgainLists : HandleSubscribe(c, chs)
    \/ \E c \in Served : SubscribeReceiver(c)
    \/ \E c \in Served : SubscribeToChannel(c)
    \/ \E c \in Served, chs \in AgainLists : SubSubscribe(c, chs)
    \/ \E c \in Served : SubMessage(c, "a")
    \/ \E c \in Served : HandlePublish(c, "a", "m1")

SpecAgain == InitWire /\ [][NextAgain]_vars

\* Subscribers that stay: the connections being served subscribe once,
\* to one channel or to both, and publish; none unsubscribes or leaves.
StayLists == {<<"a">>, <<"a", "b">>}

NextStay ==
    \/ \E c \in Served, chs \in StayLists : HandleSubscribe(c, chs)
    \/ \E c \in Served : SubscribeReceiver(c)
    \/ \E c \in Served : SubscribeToChannel(c)
    \/ \E c \in Served, ch \in Channels : SubMessage(c, ch)
    \/ \E c \in Served, ch \in Channels, m \in Msgs : HandlePublish(c, ch, m)

SpecStay == InitServed /\ [][NextStay]_vars

FairStay ==
    /\ SpecStay
    /\ \A c \in Served : WF_vars(SubscribeReceiver(c))
    /\ \A c \in Served : WF_vars(SubscribeToChannel(c))
    /\ \A c \in Served, ch \in Channels : SF_vars(SubMessage(c, ch))

\* The handler makes progress: tokio polls the branches of select! in a
\* random order, so a branch that is ready again and again is taken.
FairDeliver ==
    /\ SpecDeliver
    /\ \A c \in Served : WF_vars(SubscribeReceiver(c))
    /\ \A c \in Served : WF_vars(SubscribeToChannel(c))
    /\ \A c \in Served : SF_vars(SubMessage(c, "a"))

Subscribed(c, ch) == hpc[c] = "sub" /\ ch \in DOMAIN subs[c]

\* Message number i of ch was published while c held its subscription.
PublishedTo(c, ch, i) ==
    /\ Subscribed(c, ch)
    /\ got[c][ch].from <= i
    /\ i < Len(sent[ch])

DeliveredTo(c, ch, i) == ch \in DOMAIN got[c] /\ i \in Positions(c, ch)

\* The receiver's cursor jumped over message i: it had been overwritten.
SkippedBy(c, ch, i) ==
    /\ Subscribed(c, ch)
    /\ i < subs[c][ch]
    /\ i \notin Positions(c, ch)
    /\ Len(sent[ch]) - i > RingCapacity

\* c is still connected and still holds the subscription to ch under
\* which message i was published (a SUBSCRIBE to ch again replaces the
\* receiver: the new one starts at the tail).
StaysSubscribed(c, ch, i) == Subscribed(c, ch) /\ got[c][ch].from <= i

-----------------------------------------------------------------------------
\* Connection limit and shutdown (spec 4.1, 4.7, 8).

\* The handlers that are running or have yet to give their permit back.
LiveHandlers ==
    {c \in Conns : hpc[c] \in {"normal", "notify", "sub", "release"}}

C8_RunReturnsAfterHandlers ==
    runPc \in {"returned", "panicked"} =>
        \A c \in Conns : hpc[c] \in {"unborn", "done"}

\* run has returned after a shutdown that found handlers running.
C8_Witness ==
    /\ runPc = "returned"
    /\ fired
    /\ \A c \in Conns : hpc[c] = "done"

\* C9 as stated: run returns only after every handler and the eviction
\* worker have exited.
C9_RunReturnsAfterWorker ==
    runPc = "returned" =>
        /\ \A c \in Conns : hpc[c] \in {"unborn", "done"}
        /\ workerPc = "exited"

\* C9: run returns only after every handler has exited and the eviction
\* worker has been told to stop: the shutdown flag is raised and the worker
\* has exited, is about to test the flag, or has a notification pending.
C9_RunReturnsAfterSignal ==
    runPc = "returned" =>
        /\ \A c \in Conns : hpc[c] \in {"unborn", "done"}
        /\ state.is_shutdown
        /\ workerPc \in {"exited", "loop"} \/ notified

\* run has returned while the worker is still waiting.
C9_Witness ==
    /\ runPc = "returned"
    /\ workerPc \in {"sleep", "wait"}
    /\ notified

\* Progress of the tasks (tokio schedules every ready task, and select!
\* polls its branches in a random order).
FairSpec ==
    /\ Spec
    /\ \A c \in Conns : SF_vars(HandleShutdown(c))
    /\ \A c \in Conns : WF_vars(SubscribeReceiver(c))
    /\ \A c \in Conns : WF_vars(SubscribeToChannel(c))
    /\ \A c \in Conns : WF_vars(ReleasePermit(c))
    /\ \A c \in Conns : WF_vars(TaskEnd(c))
    /\ WF_vars(RunFinish)
    /\ WF_vars(ShutdownNotifies)
    /\ WF_vars(WorkerLoop)
    /\ WF_vars(WorkerPurge)
    /\ WF_vars(WorkerNotified)

\* C10: after the shutdown signal every handler eventually exits and run
\* eventually returns.
C10_ShutdownCompletes ==
    fired ~> (runPc = "returned" /\ \A c \in Conns : hpc[c] \in {"unborn", "done"})

\* After the shutdown signal run is eventually over, by returning or by
\* the panic of the final drop on a poisoned mutex.
C10_RunIsOver == fired ~> (runPc \in {"returned", "panicked"})

-----------------------------------------------------------------------------
\* Commands in subscribe mode and unknown commands (spec 4.4, 6).

\* The request connection c sent last, and the command it parses to.
Asked(c) == Unwrap(req[c])
AskedCommand(c) == CommandTryFrom(Asked(c).frame)
AskedIn(c, mode, kinds) ==
    /\ req[c] # None
    /\ Asked(c).mode = mode
    /\ AskedCommand(c).kind \in kinds

OtherKinds == {"get", "set", "del", "publish", "ping", "unknown"}

\* C13: in subscribe mode any command other than SUBSCRIBE and UNSUBSCRIBE
\* (GET, SET, DEL, PUBLISH, ...) is answered with the Error frame
\* ERR unknown command '<name>' naming that command, and the connection
\* remains in subscribe mode, even with an empty subscription set.
C13_OtherCommandsNamedUnknown ==
    \A c \in Served :
        AskedIn(c, "sub", OtherKinds) =>
            /\ out[c] = <<UnknownReply(Lower(Asked(c).frame[1]))>>
            /\ hpc[c] = "sub"

\* The rest of C13: a handler in subscribe mode never returns to normal
\* mode, and a command other than SUBSCRIBE and UNSUBSCRIBE is not applied
\* to the store.
C13_NeverNormalNotApplied ==
    [][\A c \in Served :
          /\ hpc[c] = "sub" => hpc'[c] # "normal"
          /\ (req'[c] # req[c] /\ AskedIn(c, "sub", OtherKinds)') =>
                /\ state' = state
                /\ sent' = sent
                /\ lastSet' = lastSet]_vars

\* C20: a command with an unknown name, in normal mode, is answered with
\* the Error frame ERR unknown command '<name>' (the name lower-cased)
\* whatever arguments follow it; the store is unchanged; the connection
\* stays open and the handler goes on in normal mode.
C20_UnknownCommandAnswered ==
    /\ [](\A c \in Served :
            AskedIn(c, "normal", {"unknown"}) =>
                /\ out[c] = <<UnknownReply(Lower(Asked(c).frame[1]))>>
                /\ hpc[c] = "normal")
    /\ [][\A c \in Served :
            (req'[c] # req[c] /\ AskedIn(c, "normal", {"unknown"})') =>
                /\ state' = state
                /\ poisoned' = poisoned]_vars

C20_Witness ==
    \E c \in Served :
        /\ AskedIn(c, "normal", {"unknown"})
        /\ Len(Asked(c).frame) > 1
        /\ Lower(Asked(c).frame[1]) # Asked(c).frame[1]
        /\ out[c] = <<UnknownReply("foo")>>
        /\ hpc[c] = "normal"
        /\ state.entries # EmptyMap

\* The channels an UNSUBSCRIBE request listed.
Listed(c) == AskedCommand(c).channels

\* C14 as stated: UNSUBSCRIBE with an explicit list emits exactly one ack
\* per channel actually removed from the subscribe-set; a listed channel
\* the connection is not subscribed to produces no ack.
C14_AckPerRemovedChannel ==
    \A c \in Served :
        (AskedIn(c, "sub", {"unsubscribe"}) /\ Listed(c) # << >>) =>
            /\ Len(out[c]) = Cardinality(Range(Listed(c)) \cap Asked(c).had)
            /\ \A i \in DOMAIN out[c] : out[c][i][2] \in Asked(c).had

\* C14: UNSUBSCRIBE with an explicit list emits exactly one ack per listed
\* channel, in the order listed, whether or not the connection was
\* subscribed to it; each ack carries the channel and the size of the
\* subscribe-set after that channel was removed from it (for a channel not
\* subscribed the size is unchanged); afterwards no listed channel is in
\* the subscribe-set.
C14_AckPerListedChannel ==
    \A c \in Served :
        (AskedIn(c, "sub", {"unsubscribe"}) /\ Listed(c) # << >>) =>
            /\ Len(out[c]) = Len(Listed(c))
            /\ \A i \in DOMAIN out[c] :
                  /\ out[c][i][1] = "unsubscribe"
                  /\ out[c][i][2] = Listed(c)[i]
                  /\ out[c][i][3] = Cardinality(Asked(c).had \
                                        {Listed(c)[j] : j \in 1..i})
            /\ DOMAIN subs[c] = Asked(c).had \ Range(Listed(c))

C14_Witness ==
    \E c \in Served :
        /\ AskedIn(c, "sub", {"unsubscribe"})
        /\ Listed(c) = <<"a", "b">>
        /\ Asked(c).had = {"a"}
        /\ out[c] = << <<"unsubscribe", "a", 0>>, <<"unsubscribe", "b", 0>> >>

\* The part of C15 on the server's side: UNSUBSCRIBE with an empty list
\* emits exactly one ack per channel that was subscribed, with strictly
\* decreasing remaining counts ending at 0, and the subscribe-set is
\* empty afterwards.
C15_ServerSideEmptied ==
    \A c \in Served :
        (AskedIn(c, "sub", {"unsubscribe"}) /\ Listed(c) = << >>) =>
            /\ Len(out[c]) = Cardinality(Asked(c).had)
            /\ {out[c][i][2] : i \in DOMAIN out[c]} = Asked(c).had
            /\ \A i \in DOMAIN out[c] :
                  out[c][i][3] = Cardinality(Asked(c).had) - i
            /\ subs[c] = EmptyMap

\* C15: UNSUBSCRIBE with an empty list removes every subscription of the
\* connection: one ack per channel that was subscribed, strictly
\* decreasing counts ending at 0, after which the server-side
\* subscribe-set is empty and the client-side Subscriber's list is empty.
C15_UnsubscribeAllEmptiesBoth ==
    \A c \in Served :
        (AskedIn(c, "sub", {"unsubscribe"}) /\ Listed(c) = << >>) =>
            /\ Len(out[c]) = Cardinality(Asked(c).had)
            /\ {out[c][i][2] : i \in DOMAIN out[c]} = Asked(c).had
            /\ \A i \in DOMAIN out[c] :
                  out[c][i][3] = Cardinality(Asked(c).had) - i
            /\ subs[c] = EmptyMap
            /\ cl[c].list = << >>

\* The SUBSCRIBE request of c is over: every pending channel has been
\* gone through, or the handler is gone.
SubscribeOver(c) == hpc[c] # "sub" \/ pend[c] = << >>

\* The first n replies to the SUBSCRIBE of c are the acks of the first n
\* channels it listed, each with the size of the subscribe-set right after
\* that channel was inserted.
SubscribeAcked(c, n) ==
    /\ Len(out[c]) >= n
    /\ \A i \in 1..n :
          out[c][i] = <<"subscribe", Listed(c)[i],
                        Cardinality(Asked(c).had \cup {Listed(c)[j] : j \in 1..i})>>

\* C16: a SUBSCRIBE naming n channels produces exactly n subscribe-acks,
\* one per channel in the order listed, each with the channel name and
\* the size of the subscribe-set right after the insertion; this holds
\* for the SUBSCRIBE that enters subscribe mode and for one received in
\* subscribe mode.
C16_SubscribeAckPerChannel ==
    \A c \in Served, mode \in {"normal", "sub"} :
        (AskedIn(c, mode, {"subscribe"}) /\ SubscribeOver(c)) =>
            /\ Len(out[c]) = Len(Listed(c))
            /\ SubscribeAcked(c, Len(Listed(c)))

\* C16 while the handler is alive: the acks written so far are those of
\* the channels gone through so far, and all n once none is pending.
C16_AcksWhileServed ==
    \A c \in Served, mode \in {"normal", "sub"} :
        (AskedIn(c, mode, {"subscribe"}) /\ hpc[c] = "sub") =>
            /\ Len(out[c]) = Len(Listed(c)) - Len(pend[c])
            /\ SubscribeAcked(c, Len(out[c]))

-----------------------------------------------------------------------------
\* The subscriber count of PUBLISH (spec 6).

\* The connections whose subscribe-set contains ch, and those in the
\* middle of subscribe_to_channel for ch: Db::subscribe has returned the
\* receiver, the StreamMap does not hold it yet.
SubscribersOf(ch) == {c \in Conns : ch \in DOMAIN subs[c]}
SubscribingTo(ch) == {c \in Conns : fresh[c] # None /\ Head(pend[c]) = ch}

\* The live receivers of ch.
Receivers(ch) ==
    IF ch \in DOMAIN state.pub_sub THEN state.pub_sub[ch].rx_cnt ELSE 0

\* C17 as stated: the integer PUBLISH returns on ch is the number of live
\* receivers of ch at that moment, which is the number of connections
\* whose subscribe-set contains ch.
C17_PublishCountsSubscribers ==
    \A ch \in Channels, m \in Msgs :
        PublishReply(ch, m)[1] = "Integer" =>
            /\ PublishReply(ch, m) = Integer(Receivers(ch))
            /\ Receivers(ch) = Cardinality(SubscribersOf(ch))

\* C17: the integer PUBLISH returns on ch is the number of live receivers
\* of ch at that moment: one per connection whose subscribe-set contains
\* ch, plus one per connection that is in the middle of subscribing to
\* ch (a connection subscribing again to a channel it holds counts twice
\* until the insertion drops its old receiver).
C17_PublishCountsReceivers ==
    \A ch \in Channels, m \in Msgs :
        PublishReply(ch, m)[1] = "Integer" =>
            /\ PublishReply(ch, m) = Integer(Receivers(ch))
            /\ Receivers(ch) = Cardinality(SubscribersOf(ch))
                                 + Cardinality(SubscribingTo(ch))

C17_Witness ==
    \E ch \in Channels, c \in Served :
        /\ sent[ch] # << >>
        /\ c \in SubscribersOf(ch) \cap SubscribingTo(ch)
        /\ PublishReply(ch, "m1") = Integer(2)

-----------------------------------------------------------------------------
\* The accept backoff (spec 4.1).

\* The sleep after the n-th consecutive failure: 1, 2, 4, ... seconds.
SleepAfter(n) == 2 ^ (n - 1)

KeySets == (SUBSET Keys) \ {{}}

\* Key k and its expiration pair are absent from the State st.
Absent(st, k) ==
    /\ k \notin DOMAIN st.entries
    /\ \A p \in st.expirations : p[2] # k

\* DEL of the keys ks, run twice from the State st: after the first the
\* keys and their pairs are absent, and the second leaves the key table,
\* the expiration index and the channel registry as they are.
SecondDelIsNoOp(st, ks) ==
    LET first == DbDel(st, ks) IN
    /\ \A k \in ks : Absent(first, k)
    /\ DbDel(first, ks) = first

C19_IdempotentWhileUnpoisoned ==
    \A ks \in KeySets :
        /\ ~poisoned => DelReply(ks) = Simple("OK")
        /\ SecondDelIsNoOp(state, ks)

\* Every DEL served on a live mutex leaves its keys and their pairs absent
\* and the channel registry as it was; a second DEL would change nothing.
C19_DelServed ==
    [][\A c \in Conns, ks \in KeySets :
          (HandleDel(c, ks) /\ ~poisoned) =>
              /\ \A k \in ks : Absent(state', k)
              /\ DbDel(state', ks) = state'
              /\ state'.pub_sub = state.pub_sub]_vars

-----------------------------------------------------------------------------
\* The handler loop on request frames (spec 4.2, 4.3, 5, 7).

\* The requests the handler of c has read, and the last of them.
Read(c) == 1..sock[c].read
Ended(c) == hpc[c] = "release"

\* A SET frame whose option token is neither EX nor PX in any letter case.
OtherOption(frame) ==
    /\ Len(frame) >= 4
    /\ Lower(frame[1]) = "set"
    /\ Upper(frame[4]) \notin {"EX", "PX"}

\* C21: a SET whose option token is anything other than EX or PX (in any
\* letter case) is a fatal protocol error: the handler ends with an error
\* on reading it, no reply is written for it, it is the last request the
\* handler reads, and the key table and the expiration index are left as
\* they were.
C21_OtherSetOptionIsFatal ==
    /\ [](\A c \in Pipelined : \A i \in Read(c) :
            OtherOption(sock[c].reqs[i]) =>
                /\ i = sock[c].read
                /\ Ended(c)
                /\ hExit[c] = "error"
                /\ Len(sock[c].resp) < i)
    /\ [][\A c \in Pipelined :
            (/\ sock'[c].read = sock[c].read + 1
             /\ OtherOption(sock[c].reqs[sock'[c].read])) =>
                /\ state'.entries = state.entries
                /\ state'.expirations = state.expirations]_vars

\* A SET with another option has ended a handler that had served a SET
\* with an expiration before.
C21_Witness ==
    \E c \in Pipelined :
        /\ sock[c].read = 2
        /\ sock[c].reqs[1] = <<"SET", "k1", "v2", "ex", "1">>
        /\ sock[c].reqs[2] = <<"SET", "k1", "v2", "XX", "1">>
        /\ Ended(c)
        /\ sock[c].resp = <<Simple("OK")>>
        /\ state.expirations # {}

\* The commands that are answered with exactly one frame in normal mode.
OneReplyKinds == {"get", "set", "del", "ping", "publish", "unknown"}

Kind(frame) == CommandTryFrom(frame).kind

\* reply is a response to the request frame: a Bulk or Null to GET, +OK
\* to SET and DEL, PONG or the payload to PING, an Integer to PUBLISH, the
\* unknown-command error to an unknown name.
Answers(frame, reply) ==
    CASE Kind(frame) = "get" -> reply[1] \in {"Bulk", "Null"}
      [] Kind(frame) \in {"set", "del"} ->
           reply[1] = "Simple" /\ reply = Simple("OK")
      [] Kind(frame) = "ping" ->
           /\ reply[1] \in {"Simple", "Bulk"}
           /\ reply[1] = PingReply(CommandTryFrom(frame).msg)[1]
           /\ reply = PingReply(CommandTryFrom(frame).msg)
      [] Kind(frame) = "publish" -> reply[1] = "Integer"
      [] Kind(frame) = "unknown" ->
           reply[1] = "Error" /\ reply = UnknownReply(Lower(frame[1]))
      [] OTHER -> FALSE

\* The responses of c are, in order, responses to its first requests.
InRequestOrder(c) ==
    /\ Len(sock[c].resp) <= sock[c].read
    /\ \A i \in 1..Len(sock[c].resp) :
          Answers(sock[c].reqs[i], sock[c].resp[i])

\* C22: commands on a single connection are processed strictly in receive
\* order: the responses appear in the order of the requests, and every
\* GET, SET, DEL, PING, PUBLISH and unknown command the handler has read
\* has exactly one response, written before the next request is read (the
\* response of a SET that is still inside Db::set is the one to come).
C22_OneResponsePerCommandInOrder ==
    \A c \in Pipelined :
        /\ InRequestOrder(c)
        /\ Len(sock[c].resp) + (IF hpc[c] = "notify" THEN 1 ELSE 0) =
              Cardinality({i \in Read(c) : Kind(sock[c].reqs[i]) \in OneReplyKinds})

\* The responses are in the order of the requests; a handler that is
\* running has answered every request it has read, but for the SET it is
\* inside, and a handler that has ended has answered all but the last one
\* it read.
C22_InOrderWhileServed ==
    \A c \in Pipelined :
        /\ InRequestOrder(c)
        /\ hpc[c] = "normal" =>
              /\ Len(sock[c].resp) = sock[c].read
              /\ \A i \in Read(c) : Kind(sock[c].reqs[i]) \in OneReplyKinds
        /\ (Ended(c) \/ hpc[c] = "notify") =>
              Len(sock[c].resp) = sock[c].read - 1


----------------------------------------------------------------------------
(* The frame codec                                                         *)

RECURSIVE Encodings(_)
Encodings(frames) ==
    IF frames = << >> THEN << >>
    ELSE WriteFrame(Head(frames)) \o Encodings(Tail(frames))

\* Decoding the bytes write_frame writes for the frame yields that frame
\* and leaves no byte.
RoundTrips(frame) ==
    LET parsed == ParseFrame(WriteFrame(frame))
    IN /\ parsed.res = "ok"
       /\ parsed.frame = frame
       /\ parsed.rest = << >>

\* The frames read are the first frames written, and the bytes not yet
\* consumed are the encodings of the other frames written (a peer that
\* is cut wrote its last frame in part).
ReadAsWritten ==
    /\ readPc # "invalid"
    /\ Len(decoded) <= Len(encoded)
    /\ \A i \in DOMAIN decoded : decoded[i] = encoded[i]
    /\ peer # "cut" =>
          buffer \o wire =
              Encodings(SubSeq(encoded, Len(decoded) + 1, Len(encoded)))

\* C23: every frame the encoder can write (Simple, Error, Integer, Bulk,
\* Null, or an Array of those) is decoded from write_frame's bytes as
\* exactly one frame equal to it, and exactly those bytes are consumed:
\* each frame written round-trips, and a connection reads the frames its
\* peer wrote, one for one.
C23_FrameRoundTrip ==
    /\ \A i \in DOMAIN encoded : RoundTrips(encoded[i])
    /\ ReadAsWritten

HasCrLf(text) == \E i \in 1..(Len(text) - 1) : text[i] = CR /\ text[i + 1] = LF
LineSafe(frame) == frame[1] \in {"Simple", "Error"} => ~HasCrLf(frame[2])

\* C23, the case the codec does handle: a frame whose Simple or Error
\* text holds no CR LF round-trips, and a connection whose peer wrote
\* only such frames reads them one for one.
C23_LineSafeFramesRoundTrip ==
    /\ \A i \in DOMAIN encoded : LineSafe(encoded[i]) => RoundTrips(encoded[i])
    /\ (\A i \in DOMAIN encoded : LineSafe(encoded[i])) /\ peer # "cut"
           => ReadAsWritten

C23_ArrayRead ==
    /\ decoded = <<Array(<<Bulk(<<"a">>), Null>>), Bulk(<<CR, LF>>)>>
    /\ encoded = decoded
    /\ buffer = << >>
    /\ wire = << >>

\* The socket is at its end: the peer is gone, every byte is buffered and
\* the buffer holds no whole frame.
AtEof ==
    /\ readPc = "reading"
    /\ wire = << >>
    /\ peer # "open"
    /\ ParseFrame(buffer).res = "incomplete"

\* C24: at the end of the stream read_frame yields None when the buffer
\* is empty, and the handler returns Ok; it fails with "connection reset
\* by peer" when bytes of an unfinished frame are buffered, and the
\* handler returns the error; neither delivers a frame, no frame is
\* delivered afterwards, and a frame the peer wrote in part is never
\* delivered.
C24_EofHandling ==
    /\ [](readPc = "none" =>
            /\ buffer = << >> /\ wire = << >> /\ peer # "open"
            /\ Ended(CodecConn) /\ hExit[CodecConn] = "eof")
    /\ [](readPc = "reset" =>
            /\ buffer # << >> /\ ParseFrame(buffer).res = "incomplete"
            /\ Ended(CodecConn) /\ hExit[CodecConn] = "error")
    /\ []((peer = "cut" /\ LineSafe(encoded[Len(encoded)])) =>
            Len(decoded) < Len(encoded))
    /\ [][AtEof =>
            /\ decoded' = decoded
            /\ readPc' = IF buffer = << >> THEN "none" ELSE "reset"]_vars
    /\ [][readPc # "reading" => decoded' = decoded]_vars

C24_Witness ==
    /\ readPc = "reset"
    /\ peer = "cut"
    /\ decoded = <<Array(<<Bulk(<<"a">>)>>)>>
    /\ buffer = <<"*", "2", CR, LF, "$">>
    /\ hExit[CodecConn] = "error"

----------------------------------------------------------------------------
(* PING in normal mode                                                     *)

IsPing(frame) == Len(frame) \in {1, 2} /\ Lower(frame[1]) = "ping"
Pong(frame) == IF Len(frame) = 1 THEN Simple("PONG") ELSE Bulk(frame[2])

\* C25: in normal mode a PING without argument is answered with the
\* Simple frame PONG and a PING with one argument with that argument as a
\* Bulk frame, whatever the state of the store, and serving it changes
\* neither the key table, nor the expiration index, nor the channel
\* registry.
C25_PingAnswered ==
    /\ [](\A c \in Pipelined : \A i \in Read(c) :
            IsPing(sock[c].reqs[i]) =>
                /\ i <= Len(sock[c].resp)
                /\ sock[c].resp[i] = Pong(sock[c].reqs[i]))
    /\ [][\A c \in Pipelined :
            (/\ sock'[c].read = sock[c].read + 1
             /\ IsPing(sock[c].reqs[sock'[c].read])) =>
                /\ sock'[c].resp = Append(sock[c].resp,
                                          Pong(sock[c].reqs[sock'[c].read]))
                /\ hpc'[c] = "normal"
                /\ state' = state
                /\ poisoned' = poisoned]_vars

C25_Witness ==
    \E c \in Pipelined :
        /\ sock[c].reqs = <<<<"SET", "k1", "v1">>, <<"PING">>, <<"Ping", "hi">>>>
        /\ sock[c].resp = <<Simple("OK"), Simple("PONG"), Bulk("hi")>>
        /\ "k1" \in DOMAIN state.entries

----------------------------------------------------------------------------
(* Lag of a subscriber                                                     *)

\* The first message of ch that the ring still holds.
Retained(ch) == state.pub_sub[ch].tail - Len(state.pub_sub[ch].buf)

\* The cursor of c on ch points at a message that has been overwritten.
Behind(c, ch) == Subscribed(c, ch) /\ subs[c][ch] < Retained(ch)

\* The stream of c on ch has moved or has gone while the handler goes on.
Received(c, ch) ==
    /\ Subscribed(c, ch)
    /\ hpc'[c] = "sub"
    /\ ch \notin DOMAIN subs'[c] \/ subs'[c][ch] # subs[c][ch]

\* The next message of ch that c can still be sent.
Due(c, ch) == IF Behind(c, ch) THEN Retained(ch) ELSE subs[c][ch]

\* C26: lag is not fatal, for subscribers that stay connected and
\* subscribed.  When the stream of a subscriber moves, also from a cursor
\* whose messages were overwritten, the subscription stays in place and
\* the subscriber is sent the oldest message not yet sent to it that the
\* ring retains: only overwritten messages are skipped, the others go out
\* in publish order.  A handler leaves subscribe mode only by the panic
\* of a SUBSCRIBE on a poisoned mutex, never for being behind.  And a
\* subscriber that is behind is eventually sent every message retained
\* or published later, unless the handler ends or it falls behind that
\* message too.
C26_LagIsNotFatal ==
    /\ [][\A c \in Served, ch \in Channels :
            Received(c, ch) =>
                /\ ch \in DOMAIN subs'[c]
                /\ subs'[c][ch] = Due(c, ch) + 1
                /\ got'[c][ch].from = got[c][ch].from
                /\ got'[c][ch].seq =
                      Append(got[c][ch].seq,
                             <<Due(c, ch), sent[ch][Due(c, ch) + 1]>>)]_vars
    /\ [][\A c \in Served :
            (hpc[c] = "sub" /\ hpc'[c] # "sub") =>
                poisoned /\ pend[c] # << >>]_vars
    /\ \A c \in Served, ch \in Channels, i \in 0..(MaxPublish - 1) :
          (Behind(c, ch) /\ Retained(ch) <= i /\ i < Len(sent[ch])) ~>
              \/ DeliveredTo(c, ch, i)
              \/ ~StaysSubscribed(c, ch, i)
              \/ SkippedBy(c, ch, i)

\* A subscriber fell behind, was sent the message retained and then the
\* one published next, and is still subscribed.
C26_Witness ==
    \E c \in Served :
        /\ Subscribed(c, "a")
        /\ got[c]["a"].from = 0
        /\ Len(sent["a"]) = RingCapacity + 2
        /\ got[c]["a"].seq = <<<<RingCapacity, sent["a"][RingCapacity + 1]>>,
                               <<RingCapacity + 1, sent["a"][RingCapacity + 2]>>>>

----------------------------------------------------------------------------
(* The expiration index and the eviction worker                            *)

PairsOf(k) == {p \in state.expirations : p[2] = k}

\* C27: every entry whose expires_at is set has exactly one pair in the
\* expiration index, the pair of that instant and its key; an entry
\* without expires_at has none; and every pair of the index is the pair
\* of an entry of the key table whose expires_at is the pair's instant.
C27_ExpirationIndex ==
    /\ \A k \in DOMAIN state.entries :
          IF IsSome(state.entries[k].expires_at)
          THEN PairsOf(k) = {<<Unwrap(state.entries[k].expires_at), k>>}
          ELSE PairsOf(k) = {}
    /\ \A p \in state.expirations :
          /\ p[2] \in DOMAIN state.entries
          /\ state.entries[p[2]].expires_at = Some(p[1])

\* A key was set with a TTL and set again with a later one, a second key
\* holds a value without TTL, and the worker has gone through the index.
C27_Witness ==
    /\ DOMAIN state.entries = {"k1", "k2"}
    /\ state.entries["k1"].expires_at = Some(MaxTime + MaxTtl)
    /\ state.entries["k2"].expires_at = None
    /\ state.expirations = {<<MaxTime + MaxTtl, "k1">>}
    /\ workerPc = "sleep"
    /\ workerWhen = Some(MaxTime + MaxTtl)

\* The entries that the step takes out of the key table.
Removed == {k \in DOMAIN state.entries : k \notin DOMAIN state'.entries}

\* The step is one of the eviction worker.
WorkerStep == workerPc' # workerPc

\* C28: every entry that the eviction worker removes has an expires_at
\* that is set and not later than the instant of the purge; the worker
\* leaves every other entry as it is, whatever was set, set again or
\* deleted while it slept, and no pair stays behind for a removed entry.
C28_PurgesOnlyExpired ==
    [][WorkerStep =>
        /\ \A k \in Removed :
              /\ IsSome(state.entries[k].expires_at)
              /\ Unwrap(state.entries[k].expires_at) <= now
        /\ \A k \in DOMAIN state'.entries :
              /\ k \in DOMAIN state.entries
              /\ state'.entries[k] = state.entries[k]
        /\ Removed # {} => workerPc = "purge"]_vars

\* The worker has purged a key that was due and has kept one that was set
\* to expire later: it sleeps until the instant of the key it kept.
C28_Witness ==
    /\ DOMAIN state.entries = {"k1"}
    /\ IsSome(lastSet["k2"])
    /\ IsSome(Unwrap(lastSet["k2"]).due)
    /\ Unwrap(Unwrap(lastSet["k2"]).due) <= now
    /\ IsSome(state.entries["k1"].expires_at)
    /\ Unwrap(state.entries["k1"].expires_at) > now
    /\ workerPc = "sleep"
    /\ workerWhen = state.entries["k1"].expires_at

\* The key holds an entry whose instant has passed.
Expired(k) ==
    /\ k \in DOMAIN state.entries
    /\ IsSome(state.entries[k].expires_at)
    /\ Unwrap(state.entries[k].expires_at) <= now

\* Neither the key table nor the index holds the key with an instant that
\* has passed: it was removed, or set again to expire later or never.
Evicted(k) == ~Expired(k) /\ \A p \in PairsOf(k) : p[1] > now

\* C29: a key set with a TTL whose instant has passed is eventually
\* removed from the key table and the expiration index by the eviction
\* worker, unless it is set again or deleted first, whatever the order in
\* which keys of earlier and later instants were set while the worker
\* slept.
C29_EventuallyEvicted == \A k \in Keys : Expired(k) ~> Evicted(k)

\* C29 while the mutex of the store is not poisoned.
C29_EvictedWhileUnpoisoned ==
    \A k \in Keys : Expired(k) ~> (Evicted(k) \/ poisoned)

\* The worker has evicted the key whose TTL was set last and has passed.
C29_Evicted ==
    \E k \in Keys :
        /\ k \notin DOMAIN state.entries
        /\ PairsOf(k) = {}
        /\ IsSome(lastSet[k])
        /\ IsSome(Unwrap(lastSet[k]).due)
        /\ Unwrap(Unwrap(lastSet[k]).due) <= now
        /\ ~poisoned

\* A SET is between the drop of the lock and notify_one.
Notifying == \E c \in Conns : hpc[c] = "notify"

\* The worker waits for an instant that is not later than any instant of
\* the index, or for the notifier alone with an empty index.
WakesInTime ==
    /\ workerPc = "sleep" =>
          \A p \in state.expirations : Unwrap(workerWhen) <= p[1]
    /\ workerPc = "wait" => state.expirations = {}

Waiting == workerPc \in {"sleep", "wait"} /\ ~notified

\* C30 as stated: whenever the worker is blocked waiting and no
\* notification is pending, its sleep target is not later than the
\* earliest instant of the index, and the index is empty when it waits on
\* the notifier alone.
C30_SleepsNoLonger == Waiting => WakesInTime

\* C30: the same, whenever in addition no SET is between the drop of the
\* store lock and its call of notify_one.
C30_SleepsNoLongerOnceNotified == (Waiting /\ ~Notifying) => WakesInTime

\* The worker sleeps until the earlier of two instants, nothing pending.
C30_Witness ==
    /\ Waiting
    /\ ~Notifying
    /\ state.expirations = {<<1, "k2">>, <<2, "k1">>}
    /\ workerWhen = Some(1)
    /\ now = 0

----------------------------------------------------------------------------
(* Writers and the notifier of the worker                                  *)

\* The step writes the entry of key k.
Writes(k) ==
    /\ k \in DOMAIN state'.entries
    /\ k \notin DOMAIN state.entries \/ state'.entries[k] # state.entries[k]

\* The instant the entry of k is given is earlier than every instant the
\* index held before the step.
Shortens(k) ==
    /\ IsSome(state'.entries[k].expires_at)
    /\ \A p \in state.expirations :
          Unwrap(state'.entries[k].expires_at) < p[1]

\* A handler leaves Db::set's lock with a notification to send.
ToNotify == \E c \in Conns : hpc[c] = "normal" /\ hpc'[c] = "notify"

\* A handler calls notify_one.
NotifyOne == \E c \in Conns : hpc[c] = "notify" /\ hpc'[c] = "normal"

\* C31: a SET signals the notifier of the worker exactly when it carries a
\* TTL and its instant is strictly earlier than the earliest instant of
\* the index before the write, or the index is empty; a SET without TTL
\* and a DEL never signal it: only such a SET goes on to notify_one, and
\* the notifier is signalled by notify_one alone.
C31_SetSignalsWhenEarlier ==
    [][/\ \A k \in Keys : Writes(k) => (ToNotify <=> Shortens(k))
       /\ ToNotify => \E k \in Keys : Writes(k)
       /\ NotifyOne => notified'
       /\ (notified' /\ ~notified) => NotifyOne]_vars

\* A SET with the earlier of two instants is about to notify the worker,
\* which sleeps until the later one.
C31_Witness ==
    /\ \E c \in Conns : hpc[c] = "notify"
    /\ state.expirations = {<<1, "k2">>, <<2, "k1">>}
    /\ workerPc = "sleep"
    /\ workerWhen = Some(2)
    /\ ~notified

\* The instant of the last SET of k that no DEL followed, if it had a TTL.
LastDue(k) == IF IsSome(lastSet[k]) THEN Unwrap(lastSet[k]).due ELSE None

\* C32: a SET replaces the entry together with its expiration.  After the
\* write the index holds for the key the pair of the new instant and no
\* other, or no pair when the SET carries no TTL; and the worker removes a
\* key only if its last SET carried a TTL, and not before the instant of
\* that SET, whatever instants the key had before.
C32_SetReplacesExpiration ==
    [][/\ \A k \in Keys :
            Writes(k) =>
                {p \in state'.expirations : p[2] = k} =
                    IF IsSome(state'.entries[k].expires_at)
                    THEN {<<Unwrap(state'.entries[k].expires_at), k>>}
                    ELSE {}
       /\ WorkerStep =>
            \A k \in Removed : IsSome(LastDue(k)) /\ Unwrap(LastDue(k)) <= now]_vars

\* At the end of time one key holds a value without TTL and is not in the
\* index, the other was evicted at its instant, and the worker waits on
\* the notifier alone.
C32_Witness ==
    /\ "k1" \in DOMAIN state.entries
    /\ state.entries["k1"].expires_at = None
    /\ state.expirations = {}
    /\ "k2" \notin DOMAIN state.entries
    /\ LastDue("k2") = Some(0)
    /\ now = MaxTime
    /\ workerPc = "wait"

----------------------------------------------------------------------------
(* Keys and channels                                                       *)

KeysChange ==
    \/ state'.entries # state.entries
    \/ state'.expirations # state.expirations

ChannelsChange == state'.pub_sub # state.pub_sub \/ subs' # subs \/ got' # got

\* C33: the keys and the channels are two namespaces.  A step that changes
\* the key table or the expiration index (a SET, a DEL, a purge of the
\* worker) leaves the channel registry, every subscription and what the
\* subscribers were sent as they are, and a step that changes any of
\* these (a SUBSCRIBE, an UNSUBSCRIBE, a PUBLISH, a delivery) leaves the
\* key table and the index as they are, also when the key and the channel
\* bear the same name.
C33_NamespacesDisjoint == [][~(KeysChange /\ ChannelsChange)]_vars

\* The name is a key with a value and a TTL and a channel with a
\* subscriber that was sent a message.
C33_Witness ==
    /\ SharedName \in DOMAIN state.entries
    /\ state.expirations # {}
    /\ SharedName \in DOMAIN state.pub_sub
    /\ \E c \in Served :
          /\ Subscribed(c, SharedName)
          /\ got[c][SharedName].seq # << >>

----------------------------------------------------------------------------
(* The worker when the store is shut down                                  *)

\* The DbDropGuard was dropped: run left its body.
GuardDropped == runPc \in {"returned", "panicked"}

\* No step removes an entry once the shutdown flag is raised.
NoRemovalOnceFlagged ==
    [][state.is_shutdown =>
           /\ state'.entries = state.entries
           /\ state'.expirations = state.expirations]_vars

\* C34: when the store is shut down (the DbDropGuard is dropped, which
\* raises the shutdown flag and signals the notifier), the eviction worker
\* eventually exits, wherever it was, and no entry is removed after the
\* flag was raised.
C34_WorkerExitsOnDrop ==
    /\ GuardDropped ~> (workerPc = "exited")
    /\ NoRemovalOnceFlagged

\* Once the guard has raised the flag, the worker eventually exits,
\* wherever it was, and no entry is removed after the flag was raised.
C34_WorkerExitsOnceFlagged ==
    /\ state.is_shutdown ~> (workerPc = "exited")
    /\ NoRemovalOnceFlagged

\* The worker has exited and left in the store an entry whose instant
\* has passed.
C34_Exited ==
    /\ workerPc = "exited"
    /\ state.is_shutdown
    /\ \E p \in state.expirations : p[1] <= now /\ p[2] \in DOMAIN state.entries

\* The flag is raised while the worker sleeps on its timer.
C34_FlaggedAsleep ==
    /\ state.is_shutdown
    /\ runPc = "notify"
    /\ workerPc = "sleep"
    /\ ~notified

----------------------------------------------------------------------------
(* The shutdown observer is latched                                        *)

\* C35: the shutdown observer is latched.  is_shutdown() is false before
\* the first recv() has completed and true in every state after it, it
\* never goes back to false, and a recv() called on a latched observer
\* returns at once, without awaiting the broadcast again.
C35_ObserverLatched ==
    /\ [](\A c \in Served : hShut[c] <=> observer[c].completed > 0)
    /\ [][\A c \in Served :
             hShut[c] => /\ hShut'[c]
                         /\ observer'[c].pc = "out"
                         /\ observer'[c].awaited = observer[c].awaited]_vars

\* An observer whose first recv() was dropped by its select! has
\* completed a second one on the value sent and a third on the latch,
\* while another observer has not been asked yet.
C35_Witness ==
    \E c, d \in Served :
        /\ hShut[c]
        /\ observer[c] = [pc |-> "out", seen |-> 1, awaited |-> 2,
                          completed |-> 2]
        /\ notifyOpen
        /\ ~hShut[d]
        /\ observer[d] = Idle

----------------------------------------------------------------------------
(* Shutdown and the command being served                                   *)

\* The handler of c observes the shutdown signal and returns.
QuitsOnSignal(c) == hExit[c] # "shutdown" /\ hExit'[c] = "shutdown"

\* The handler of c waits for the next frame, or in subscribe mode for
\* the next frame or message: no command is being served.
AtSelect(c) ==
    /\ hpc[c] \in {"normal", "sub"}
    /\ pend[c] = << >>
    /\ fresh[c] = None

\* Every request the handler of c has read is answered.
AllAnswered(c) == Len(sock[c].resp) = sock[c].read

\* The SUBSCRIBE c sent last, if any, has all its acks.
SubscribeAnswered(c) ==
    \A mode \in {"normal", "sub"} :
        AskedIn(c, mode, {"subscribe"}) =>
            /\ Len(out[c]) = Len(Listed(c))
            /\ SubscribeAcked(c, Len(Listed(c)))

\* The handler of c reads its next request.
Reads(c) == sock'[c].read = sock[c].read + 1

StoreChanges ==
    \/ state'.entries # state.entries
    \/ state'.expirations # state.expirations
    \/ sent' # sent

\* C36: a handler never abandons a response on shutdown.  The shutdown
\* signal ends a handler only where it waits for the next frame or the
\* next message; a handler the signal has ended has answered every
\* request it read, a SUBSCRIBE with all its acks; and a request that is
\* applied to the store is answered in the same step or, for a SET that
\* notifies the worker, right after the notification, which nothing but
\* the reply follows.
C36_NoResponseAbandoned ==
    /\ [][\A c \in Served :
             QuitsOnSignal(c) =>
                 /\ AtSelect(c)
                 /\ AllAnswered(c)
                 /\ SubscribeAnswered(c)]_vars
    /\ [](\A c \in Served : hExit[c] = "shutdown" => AllAnswered(c))
    /\ [][\A c \in Pipelined :
             (Reads(c) /\ StoreChanges) =>
                 \/ Len(sock'[c].resp) = sock'[c].read
                 \/ hpc'[c] = "notify"]_vars
    /\ [][\A c \in Pipelined :
             hpc[c] = "notify" =>
                 /\ hpc'[c] \in {"notify", "normal"}
                 /\ hpc'[c] = "normal" => Len(sock'[c].resp) = sock'[c].read]_vars

\* The signal has ended both handlers: the first had read two of its
\* three requests, a SET that notifies the worker among them, and
\* answered both, the second was in subscribe mode and had been sent a
\* message.
C36_Witness ==
    /\ hExit[1] = "shutdown"
    /\ hExit[2] = "shutdown"
    /\ Len(sock[1].reqs) = 3
    /\ sock[1].read = 2
    /\ sock[1].resp = <<Simple("OK"), Integer(1)>>
    /\ notified

----------------------------------------------------------------------------
(* Decoding and the segmentation of the byte stream                        *)

\* The frames parse_frame yields, one call after the other, from bytes
\* that are all in the buffer at once.
RECURSIVE DecodeAll(_)
DecodeAll(bytes) ==
    LET parsed == ParseFrame(bytes)
    IN IF parsed.res = "ok"
       THEN <<parsed.frame>> \o DecodeAll(parsed.rest)
       ELSE << >>

\* The bytes that reached the connection or wait in the socket, none of
\* them consumed yet.
Unread == buffer \o wire

\* The connection takes a step, the peer none.
ReaderStep == encoded' = encoded /\ peer' = peer /\ <<buffer, wire, decoded>>' # <<buffer, wire, decoded>>

\* C37: decoding does not depend on how the byte stream is split into
\* socket reads.  While the buffer holds no complete frame, parse_frame
\* consumes nothing and a read only adds bytes to the buffer; once a
\* frame is complete it is the frame a parse of all the unread bytes
\* yields, and the buffer advances by that frame's length and keeps the
\* bytes that follow; so the frames decoded so far, followed by those
\* the unread bytes hold, are the same after every read.
C37_SegmentationIndependent ==
    [][ReaderStep =>
          /\ decoded' \o DecodeAll(buffer' \o wire') = decoded \o DecodeAll(Unread)
          /\ decoded' = decoded =>
                 /\ ParseFrame(buffer).res = "incomplete"
                 /\ buffer' \o wire' = Unread
                 /\ Len(buffer') > Len(buffer)
          /\ decoded' # decoded =>
                 /\ ParseFrame(Unread).res = "ok"
                 /\ decoded' = Append(decoded, ParseFrame(Unread).frame)
                 /\ buffer' \o wire' = ParseFrame(Unread).rest
                 /\ wire' = wire]_vars

\* One frame is decoded, the next one is split: its first bytes are in
\* the buffer, the others still in the socket.
C37_Witness ==
    /\ Len(decoded) = 1
    /\ Len(encoded) = 2
    /\ peer = "open"
    /\ buffer # << >>
    /\ wire # << >>
    /\ ParseFrame(buffer).res = "incomplete"
    /\ DecodeAll(Unread) = <<encoded[2]>>

----------------------------------------------------------------------------
(* The permits of the connection limit                                     *)

\* The permit Server::run holds between acquire_owned and the spawn of the
\* handler: while Server::accept waits for a socket or sleeps its backoff.
HeldByAccept == IF accPc \in {"accept", "sleep"} THEN 1 ELSE 0

\* The handler task of c ends its life as a live handler.
Exits(c) == c \in LiveHandlers /\ c \notin LiveHandlers'

\* C38: the permits are conserved.  In every state the free permits, the
\* permits of the live handler tasks and the permit of the accept loop
\* while it waits in accept add up to MAX_CONNECTIONS; a handler task
\* that ends, whatever ended its handler, gives back exactly one permit;
\* so the accept loop holds no permit and finds none while
\* MAX_CONNECTIONS handlers are live, and finds one as soon as fewer are.
C38_PermitsConserved ==
    /\ [](permits + Cardinality(LiveHandlers) + HeldByAccept = MAX_CONNECTIONS)
    /\ [][\A c \in Conns : Exits(c) => permits' = permits + 1]_vars
    /\ [](Cardinality(LiveHandlers) = MAX_CONNECTIONS =>
              permits = 0 /\ HeldByAccept = 0)
    /\ []((Cardinality(LiveHandlers) < MAX_CONNECTIONS /\ accPc = "acquire") =>
              permits > 0)

\* A handler that panicked has not given its permit back yet, the accept
\* loop holds the other permit in accept, and none is free.
C38_Witness ==
    /\ permits = 0
    /\ accPc = "accept"
    /\ runPc = "select"
    /\ \E c \in Conns : hpc[c] = "release" /\ hExit[c] = "panic"
    /\ \E c \in Conns : hpc[c] = "done"

----------------------------------------------------------------------------
(* Subscribing again to a channel                                          *)

\* The receivers of ch connection c holds: the one in its StreamMap and
\* the one Db::subscribe has just returned to it.
Held(c, ch) ==
    (IF ch \in DOMAIN subs[c] THEN 1 ELSE 0)
        + (IF fresh[c] # None /\ Head(pend[c]) = ch THEN 1 ELSE 0)

\* subscribe_to_channel of c inserts the stream of a channel its
\* StreamMap holds already.
Replaces(c) ==
    /\ fresh[c] # None
    /\ fresh'[c] = None
    /\ hpc'[c] = "sub"
    /\ Head(pend[c]) \in DOMAIN subs[c]

\* What a SUBSCRIBE to a channel the connection holds already does: the
\* subscribe-set is the same after it, its ack carries the unchanged
\* size, and whatever the connection was sent on the channel was
\* published before the new receiver was created, which is sent only
\* what is published after.
ReplacedInPlace ==
    [][\A c \in Served :
          Replaces(c) =>
              LET ch == Head(pend[c]) IN
              /\ DOMAIN subs'[c] = DOMAIN subs[c]
              /\ out'[c][Len(out'[c])] =
                     <<"subscribe", ch, Cardinality(DOMAIN subs[c])>>
              /\ \A p \in Positions(c, ch) : p < Unwrap(fresh[c]).from
              /\ got'[c][ch] = [from |-> Unwrap(fresh[c]).from, seq |-> << >>]]_vars

\* A connection is sent a message of a receiver once: the positions it
\* is sent go up, from the position the receiver was created at.
SentOnce ==
    \A c \in Served : \A ch \in DOMAIN got[c] :
        \A i \in 1..Len(got[c][ch].seq) :
            /\ got[c][ch].seq[i][1] >= got[c][ch].from
            /\ \A j \in 1..(i - 1) : got[c][ch].seq[j][1] < got[c][ch].seq[i][1]

\* C39 as stated: each connection holds at most one receiver per channel.
\* A SUBSCRIBE to a channel already in the subscribe-set replaces the
\* receiver, so that neither the subscribe-set nor the live receivers of
\* the channel grow, the ack repeats the unchanged count, and a message
\* published once is written to the connection at most once.
C39_OneReceiverPerChannel ==
    /\ [](\A c \in Served, ch \in Channels : Held(c, ch) <= 1)
    /\ [][\A c \in Served, ch \in Channels :
             (ch \in DOMAIN subs[c] /\ fresh'[c] # fresh[c]) =>
                 Receivers(ch)' <= Receivers(ch)]_vars
    /\ ReplacedInPlace
    /\ []SentOnce

\* C39: each connection holds at most one receiver per channel in its
\* subscribe-set, and one more while it subscribes to the channel again:
\* the live receivers of a channel are those of the subscribe-sets and
\* those the store has just handed out.  The SUBSCRIBE replaces the old
\* receiver and drops it, so that after it neither the subscribe-set nor
\* the live receivers of the channel have grown, the ack repeats the
\* unchanged count, and a message published once is written to the
\* connection at most once.
C39_OneReceiverOnceSubscribed ==
    /\ [](\A c \in Served, ch \in Channels :
              /\ Held(c, ch) <= 2
              /\ Held(c, ch) = 2 => c \in SubscribingTo(ch))
    /\ [](\A ch \in Channels :
              Receivers(ch) = Cardinality(SubscribersOf(ch))
                                + Cardinality(SubscribingTo(ch)))
    /\ [][\A c \in Served, ch \in Channels :
             (Replaces(c) /\ ch = Head(pend[c])) =>
                 /\ Held(c, ch) = 2
                 /\ Receivers(ch)' = Receivers(ch) - 1]_vars
    /\ ReplacedInPlace
    /\ []SentOnce

\* A connection that was sent a message subscribes to the channel again:
\* it holds the old receiver and the new one, and the other connection
\* holds one.
C39_Witness ==
    /\ Held(1, "a") = 2
    /\ Positions(1, "a") = {0}
    /\ Unwrap(fresh[1]).from = 2
    /\ Held(2, "a") = 1
    /\ Receivers("a") = 3

----------------------------------------------------------------------------
(* Shutdown after a fatal accept error                                     *)

\* run has left its select! because Server::run returned the accept
\* error, the shutdown future not having fired.
AcceptAborted == accPc = "failed" /\ runPc # "select"

Finished == \A c \in Conns : hpc[c] \in {"unborn", "done"}

\* C40: when the accept loop aborts with a fatal accept error, run shuts
\* down as it does on the shutdown future: it drops notify_shutdown,
\* which signals every live handler, and its own shutdown_complete_tx,
\* awaits the handlers, which all finish, and is over only after every
\* one of them has finished.
C40_AcceptFailureShutsDown ==
    /\ []~(accPc = "failed" /\ fired)
    /\ [](AcceptAborted => ~notifyOpen /\ ~srvTx)
    /\ [](AcceptAborted /\ runPc # "await" => Finished)
    /\ AcceptAborted ~> Finished

\* The accept loop has aborted on its eighth failure while a handler was
\* live: run awaits it, and the handler has returned on the signal but
\* not yet given its permit back; another handler had finished before.
C40_Witness ==
    /\ AcceptAborted
    /\ runPc = "await"
    /\ fails = 8
    /\ \E c \in Conns : hpc[c] = "release" /\ hExit[c] = "shutdown"
    /\ \E c \in Conns : hpc[c] = "done"

\* run has returned after the abort, every handler having finished.
C40_Returned ==
    /\ AcceptAborted
    /\ runPc = "returned"
    /\ Cardinality({c \in Conns : hpc[c] = "done"}) >= MAX_CONNECTIONS
====
